---- MODULE Spec2Model ----
(***************************************************************************)
(* Card identity resolution of ebay_automate: lookup_pc_fuzzy.py           *)
(* (extract_int, number_similarity, fetch_candidates, lookup_best_match),  *)
(* the batch driver lookup_cards.py (to_int, to_float, run), and the       *)
(* ingestion into the table cards (build_pc_db.py upsert_cards,            *)
(* backfill_set_slug.py).                                                  *)
(*                                                                         *)
(* Text is a sequence of one-character strings.  An optional value         *)
(* (Python's None or a value) is the empty sequence or a one-element       *)
(* sequence.                                                               *)
(***************************************************************************)
EXTENDS Integers, Sequences, FiniteSets, TLC

VARIABLES
    pc,          \* position: "call"/"ret"/"raised" of a function called on its own,
                 \* "loop"/"done"/"raised" of run
    arg,         \* arguments of a function called on its own
    ret,         \* <<>> before the call returns, <<value>> after, <<exception>> when it raised
    fuzz,        \* what rapidfuzz returns: [WRatio, partial_ratio], fixed for a behaviour
    cards,       \* table cards of pricecharting.db, in rowid order
    set_meta,    \* table set_meta of pricecharting.db
    lines,       \* tmp/card_identifications.jsonl, one record per line
    top_k,       \* run's parameter top_k
    idx,         \* run: number of lines consumed by the for loop
    candidates,  \* lookup_best_match: what its last fetch_candidates returned
    fout,        \* tmp/card_matches.jsonl, the outcomes written so far
    review_rows, \* run: the review sheet rows collected so far
    db,          \* what is found at the path pricecharting.db
    con_log      \* what has been done to pricecharting.db: "connect", "execute", "close"

vars == <<pc, arg, ret, fuzz, cards, set_meta, lines, top_k, idx, candidates, fout, review_rows,
          db, con_log>>

\* ------------------------------------------------------------------ values

None == << >>

Some(x) == <<x>>

IsNone(o) == o = << >>

Val(o) == o[1]

Min(S) == CHOOSE x \in S : \A y \in S : x <= y

Max(S) == CHOOSE x \in S : \A y \in S : x >= y

Abs(x) == IF x < 0 THEN 0 - x ELSE x

SeqsUpTo(S, n) == UNION {[1..k -> S] : k \in 0..n}

\* ------------------------------------------------------------------ text

DigitChars == <<"0", "1", "2", "3", "4", "5", "6", "7", "8", "9">>

IsDigit(c) == \E i \in 1..10 : DigitChars[i] = c

DigitVal(c) == (CHOOSE i \in 1..10 : DigitChars[i] = c) - 1

\* int() of a non-empty text of decimal digits
RECURSIVE IntOfDigits(_)
IntOfDigits(s) ==
    IF s = << >> THEN 0
    ELSE 10 * IntOfDigits(SubSeq(s, 1, Len(s) - 1)) + DigitVal(s[Len(s)])

\* str(n) for n >= 0
RECURSIVE StrOfNat(_)
StrOfNat(n) ==
    IF n < 10 THEN <<DigitChars[n + 1]>>
    ELSE Append(StrOfNat(n \div 10), DigitChars[(n % 10) + 1])

\* str.zfill(width)
RECURSIVE zfill(_, _)
zfill(s, width) == IF Len(s) >= width THEN s ELSE zfill(<<"0">> \o s, width)

\* t occurs in s as a contiguous substring (SQL: s LIKE '%t%', Python: t in s)
Contains(s, t) ==
    \E i \in 1..(Len(s) - Len(t) + 1) : SubSeq(s, i, i + Len(t) - 1) = t

\* str.strip() for the blank character
RECURSIVE strip(_)
strip(s) ==
    IF s = << >> THEN s
    ELSE IF s[1] = " " THEN strip(Tail(s))
    ELSE IF s[Len(s)] = " " THEN strip(SubSeq(s, 1, Len(s) - 1))
    ELSE s

\* ------------------------------------------------------------------ extract_int

\* The regular expression \d{1,4}: the longest match at one position
MaxDigits == 4

\* re.search(r"(\d{1,4})", text): the leftmost position where a digit stands,
\* and from there the longest run of at most 4 digits (the quantifier is greedy).
extract_int(num_text) ==
    IF num_text = << >> THEN None
    ELSE LET starts == {i \in 1..Len(num_text) : IsDigit(num_text[i])}
         IN  IF starts = {} THEN None
             ELSE LET i == Min(starts)
                      ends == {j \in i..Min({Len(num_text), i + MaxDigits - 1}) :
                                  \A k \in i..j : IsDigit(num_text[k])}
                  IN  Some(IntOfDigits(SubSeq(num_text, i, Max(ends))))

\* ------------------------------------------------------------------ rapidfuzz

\* fuzz.partial_ratio(s1, s2) and fuzz.WRatio(s1, s2) are library functions: each
\* is a fixed function of its two texts with values in 0..100, here the table the
\* behaviour started with.  The library returns floats; the tables hold integers.
partial_ratio(s1, s2) == fuzz.partial_ratio[<<s1, s2>>]

WRatio(s1, s2) == fuzz.WRatio[<<s1, s2>>]

\* ------------------------------------------------------------------ number_similarity

number_similarity_off_by_one(input_num_text, candidate_num_text) ==
    LET a == extract_int(input_num_text)
        b == extract_int(candidate_num_text)
    IN  IF ~IsNone(a) /\ ~IsNone(b)
        THEN LET diff == Abs(Val(a) - Val(b))
             IN  IF Val(a) = Val(b) THEN 100
                 ELSE IF diff < 2 THEN 70
                 ELSE IF diff < 5 THEN 40
                 ELSE 0
        ELSE partial_ratio(input_num_text, candidate_num_text)

number_similarity(input_num_text, candidate_num_text) ==
    LET a == extract_int(input_num_text)
        b == extract_int(candidate_num_text)
    IN  IF ~IsNone(a) /\ ~IsNone(b)
        THEN LET diff == Abs(Val(a) - Val(b))
             IN  IF Val(a) = Val(b) THEN 100
                 ELSE IF diff <= 2 THEN 70
                 ELSE IF diff <= 5 THEN 40
                 ELSE 0
        ELSE partial_ratio(input_num_text, candidate_num_text)

\* ------------------------------------------------------------------ combined score

\* Python's round() of x / 100 for x >= 0: to the nearest integer, a tie to the even one
RoundHalfEven(x) ==
    LET q == x \div 100
        r == x % 100
    IN  IF r > 50 \/ (r = 50 /\ q % 2 = 1) THEN q + 1 ELSE q

combined_score_name_unweighted(name_score, num_score) ==
    RoundHalfEven(100 * name_score + 20 * num_score)

combined_score_truncated(name_score, num_score) ==
    (80 * name_score + 20 * num_score) \div 100

\* int(round(0.80 * name_score + 0.20 * num_score)), in hundredths
combined_score(name_score, num_score) ==
    RoundHalfEven(80 * name_score + 20 * num_score)

\* ------------------------------------------------------------------ fetch_candidates

UpperChars == <<"A", "B", "C", "D", "E", "F", "G", "H", "I", "J", "K", "L", "M",
                "N", "O", "P", "Q", "R", "S", "T", "U", "V", "W", "X", "Y", "Z">>

LowerChars == <<"a", "b", "c", "d", "e", "f", "g", "h", "i", "j", "k", "l", "m",
                "n", "o", "p", "q", "r", "s", "t", "u", "v", "w", "x", "y", "z">>

LowerChar(c) ==
    IF \E i \in 1..26 : UpperChars[i] = c
    THEN LowerChars[CHOOSE i \in 1..26 : UpperChars[i] = c]
    ELSE c

\* SQLite's column LIKE '%t%': t occurs in the column, ASCII letters compared without
\* case (t holds neither % nor _ here)
Like(column, t) ==
    Contains([i \in 1..Len(column) |-> LowerChar(column[i])], [i \in 1..Len(t) |-> LowerChar(t[i])])

\* SELECT ... FROM cards WHERE cond: the rows at the positions keep (those that
\* satisfy cond), in rowid order
SelectRows(rows, keep) ==
    [k \in 1..Cardinality(keep) |->
        rows[CHOOSE i \in keep : Cardinality({j \in keep : j <= i}) = k]]

Limit(rows, n) == SubSeq(rows, 1, Min({Len(rows), n}))

\* (input_name or "").strip().split(" ")[0]
FirstWord(input_name) ==
    LET t == strip(input_name)
        blanks == {i \in 1..Len(t) : t[i] = " "}
    IN  IF blanks = {} THEN t ELSE SubSeq(t, 1, Min(blanks) - 1)

DedupByUrl_keep_all(rows, seen) == rows

\* dedup[url] = row for each row, then list(dedup.values()): one row per card_url, at
\* the place of the url's first row and holding its last row
RECURSIVE DedupByUrl(_, _)
DedupByUrl(rows, seen) ==
    IF rows = << >> THEN << >>
    ELSE IF Head(rows).card_url \in seen THEN DedupByUrl(Tail(rows), seen)
    ELSE LET same == {i \in 1..Len(rows) : rows[i].card_url = Head(rows).card_url}
         IN  <<rows[Max(same)]>> \o DedupByUrl(Tail(rows), seen \cup {Head(rows).card_url})

\* SELECT card_name, card_number, card_url, ungraded_price, grade9_price, psa10_price
Columns(rows) ==
    [i \in 1..Len(rows) |->
        [card_name |-> rows[i].card_name,
         card_number |-> rows[i].card_number,
         card_url |-> rows[i].card_url,
         ungraded_price |-> rows[i].ungraded_price,
         grade9_price |-> rows[i].grade9_price,
         psa10_price |-> rows[i].psa10_price]]

NumberMatches(row, n_str) ==
    \/ row.card_number = n_str
    \/ row.card_number = zfill(n_str, 3)
    \/ Like(row.card_number, n_str)
    \/ Like(row.card_number, zfill(n_str, 3))

fetch_candidates(con, input_name, input_number_text, limit) ==
    LET n == extract_int(input_number_text)
        n_str == StrOfNat(Val(n))
        by_number == {i \in 1..Len(con) : NumberMatches(con[i], n_str)}
        number_pool == IF IsNone(n) THEN << >> ELSE Limit(Columns(SelectRows(con, by_number)), limit)
        tok == FirstWord(input_name)
        by_name == {i \in 1..Len(con) : Like(con[i].card_name, tok)}
        name_pool == IF tok = << >> THEN << >> ELSE Limit(Columns(SelectRows(con, by_name)), limit)
    IN  DedupByUrl(number_pool \o name_pool, {})

\* ------------------------------------------------------------------ sqlite3

\* What may be found at the path pricecharting.db: a database with the table cards,
\* no file, a database without the table cards, a file that is no database
Stores == {"ok", "no_file", "no_table", "not_a_db"}

\* sqlite3.connect(db_path) reads nothing; it creates the file it does not find
connect(store) == IF store = "no_file" THEN "no_table" ELSE store

\* The number of cur.execute calls of fetch_candidates: one when the number text
\* normalizes, one when the name has a first word
Executes(input_name, input_number_text) ==
    (IF IsNone(extract_int(input_number_text)) THEN 0 ELSE 1)
        + (IF FirstWord(input_name) = << >> THEN 0 ELSE 1)

\* The exception of the first cur.execute on a store that cannot be read; no
\* statement, no exception
sqlite_error(store, input_name, input_number_text) ==
    IF store = "ok" \/ Executes(input_name, input_number_text) = 0 THEN None
    ELSE IF store = "not_a_db" THEN Some("sqlite3.DatabaseError")
    ELSE Some("sqlite3.OperationalError")

\* con = sqlite3.connect(db_path); try: fetch_candidates(con, ...) finally: con.close()
Accesses(store, input_name, input_number_text) ==
    LET n == Executes(input_name, input_number_text)
        done == IF store = "ok" THEN n ELSE Min({n, 1})
    IN  <<"connect">> \o [i \in 1..done |-> "execute"] \o <<"close">>

\* ------------------------------------------------------------------ lookup_best_match

\* limit=800 in lookup_best_match's call of fetch_candidates
FetchLimit == 800

\* scored.sort(reverse=True, key=lambda x: x[0]): stable, so rows of equal score keep
\* their order
RECURSIVE InsertByScore_ties_reversed(_, _)
InsertByScore_ties_reversed(x, sorted) ==
    IF sorted = << >> THEN <<x>>
    ELSE IF Head(sorted).score > x.score
    THEN <<Head(sorted)>> \o InsertByScore_ties_reversed(x, Tail(sorted))
    ELSE <<x>> \o sorted

RECURSIVE InsertByScore(_, _)
InsertByScore(x, sorted) ==
    IF sorted = << >> THEN <<x>>
    ELSE IF Head(sorted).score >= x.score THEN <<Head(sorted)>> \o InsertByScore(x, Tail(sorted))
    ELSE <<x>> \o sorted

RECURSIVE SortByScoreDesc(_)
SortByScoreDesc(scored) ==
    IF scored = << >> THEN << >>
    ELSE InsertByScore(scored[Len(scored)], SortByScoreDesc(SubSeq(scored, 1, Len(scored) - 1)))

\* seq[:k] of Python
SliceTo(seq, k) ==
    IF k >= 0 THEN SubSeq(seq, 1, Min({Len(seq), k}))
    ELSE SubSeq(seq, 1, Max({0, Len(seq) + k}))

ScoreRow(card_name, card_number_text, row) ==
    LET name_score == IF card_name # << >> THEN WRatio(card_name, row.card_name) ELSE 0
        num_score == number_similarity(card_number_text, row.card_number)
    IN  [score |-> combined_score(name_score, num_score),
         name_score |-> name_score,
         number_score |-> num_score,
         card_name |-> row.card_name,
         card_number |-> row.card_number,
         card_url |-> row.card_url,
         ungraded_price |-> row.ungraded_price,
         grade9_price |-> row.grade9_price,
         psa10_price |-> row.psa10_price]

lookup_best_match_unused_only(con, card_name, card_number_text, k) ==
    LET used == {Val(fout[i].best).card_url : i \in {j \in 1..Len(fout) : ~IsNone(fout[j].best)}}
        cands == fetch_candidates(con, card_name, card_number_text, FetchLimit)
        fresh == SelectRows(cands, {i \in 1..Len(cands) : cands[i].card_url \notin used})
        scored == [i \in 1..Len(fresh) |-> ScoreRow(card_name, card_number_text, fresh[i])]
    IN  IF fresh = << >> THEN << >>
        ELSE SliceTo(SortByScoreDesc(scored), k)

lookup_best_match(con, card_name, card_number_text, k) ==
    LET cands == fetch_candidates(con, card_name, card_number_text, FetchLimit)
        scored == [i \in 1..Len(cands) |-> ScoreRow(card_name, card_number_text, cands[i])]
    IN  IF cands = << >> THEN << >>
        ELSE SliceTo(SortByScoreDesc(scored), k)

\* ------------------------------------------------------------------ lookup_cards.py

\* A JSON value of an identification record
Null == [t |-> "null"]

JInt(n) == [t |-> "int", v |-> n]

JStr(s) == [t |-> "str", v |-> s]

JBool(b) == [t |-> "bool", v |-> b]

\* A JSON number with a fraction, in hundredths
JFloat(h) == [t |-> "float", v |-> h]

\* int(s) of Python for a text: blanks around, an optional sign, decimal digits
ParseInt(s) ==
    LET t == strip(s)
        signed == t # << >> /\ t[1] \in {"+", "-"}
        digits == IF signed THEN Tail(t) ELSE t
    IN  IF digits # << >> /\ \A i \in 1..Len(digits) : IsDigit(digits[i])
        THEN Some(IF signed /\ t[1] = "-" THEN 0 - IntOfDigits(digits) ELSE IntOfDigits(digits))
        ELSE None

\* How a call ends: it returns a value, or an exception leaves it
Return(v) == [raised |-> FALSE, exc |-> "", value |-> v]

Raise(e) == [raised |-> TRUE, exc |-> e, value |-> None]

\* str(x) of a float x >= 0 given in hundredths: 16550 is "165.5", 16500 is "165.0"
StrOfFloat(h) ==
    StrOfNat(h \div 100) \o <<".">>
        \o (IF h % 10 = 0 THEN StrOfNat((h % 100) \div 10) ELSE zfill(StrOfNat(h % 100), 2))

\* str(x) of a JSON value that is no integer
StrOf(x) == IF x.t = "float" THEN StrOfFloat(x.v) ELSE x.v

\* The try block of to_int: isinstance(x, int) holds for a bool, and int(s) raises
\* ValueError on a text that is no integer
to_int_try(x) ==
    IF x.t = "null" THEN Return(None)
    ELSE IF x.t \in {"int", "bool"} THEN Return(Some(x.v))
    ELSE LET s == strip(StrOf(x))
         IN  IF s = << >> THEN Return(None)
             ELSE IF IsNone(ParseInt(s)) THEN Raise("ValueError")
             ELSE Return(ParseInt(s))

to_int_without_except(x) == to_int_try(x)

\* try: ... except Exception: return None
to_int_call(x) == IF to_int_try(x).raised THEN Return(None) ELSE to_int_try(x)

to_int(x) == to_int_call(x).value

\* float(s) of Python for a text, in hundredths: blanks around, an optional sign,
\* decimal digits with at most one point; None stands for the ValueError
ParseFloat(s) ==
    LET t == strip(s)
        signed == t # << >> /\ t[1] \in {"+", "-"}
        u == IF signed THEN Tail(t) ELSE t
        points == {i \in 1..Len(u) : u[i] = "."}
        whole == IF points = {} THEN u ELSE SubSeq(u, 1, Min(points) - 1)
        frac == IF points = {} THEN << >> ELSE SubSeq(u, Min(points) + 1, Len(u))
        cents == SubSeq(frac \o <<"0", "0">>, 1, 2)
        h == 100 * IntOfDigits(whole) + IntOfDigits(cents)
    IN  IF /\ whole \o frac # << >>
           /\ \A i \in 1..Len(whole) : IsDigit(whole[i])
           /\ \A i \in 1..Len(frac) : IsDigit(frac[i])
        THEN Some(IF signed /\ t[1] = "-" THEN 0 - h ELSE h)
        ELSE None

\* to_float, in hundredths
to_float(x) ==
    IF x.t = "null" THEN None
    ELSE IF x.t = "int" THEN Some(100 * x.v)
    ELSE IF x.t = "bool" THEN Some(IF x.v THEN 100 ELSE 0)
    ELSE IF x.t = "float" THEN Some(x.v)
    ELSE IF strip(x.v) = << >> THEN None
    ELSE ParseFloat(strip(x.v))

\* bool(x) is False: None, 0, 0.0, False, ""
Falsy(x) ==
    \/ x.t = "null"
    \/ (x.t \in {"int", "float"} /\ x.v = 0)
    \/ (x.t = "bool" /\ ~x.v)
    \/ (x.t = "str" /\ x.v = << >>)

\* rec.get(key) or ""
OrEmpty(x) == IF Falsy(x) THEN << >> ELSE x.v

\* (rec.get(key) or "").strip() raises AttributeError on a value that is no text
StripRaises(x) == ~Falsy(x) /\ x.t # "str"

\* run's parameters min_name_score and start_at
min_name_score == 70

start_at == 0

needs_review_score_only(best, set_size, year, collector_number, name) ==
    \/ IsNone(best)
    \/ Val(best).score < min_name_score

needs_review_of(best, set_size, year, collector_number, name) ==
    \/ IsNone(best)
    \/ Val(best).score < min_name_score
    \/ IsNone(set_size)
    \/ IsNone(year)
    \/ collector_number = << >>
    \/ name = << >>

best_of_last(matches) == IF matches # << >> THEN Some(matches[Len(matches)]) ELSE None

best_of(matches) == IF matches # << >> THEN Some(matches[1]) ELSE None

Outcome_confidence_gated(rec, k, con) ==
    LET name == strip(OrEmpty(rec.card_name))
        collector_number == strip(OrEmpty(rec.collector_number))
        set_size == to_int(rec.set_size)
        year == to_int(rec.copyright_year)
        oai_conf == to_float(rec.confidence)
        matches == lookup_best_match(con, name, collector_number, k)
        best == best_of(matches)
    IN  [image |-> rec.image,
         input |-> [card_name |-> name,
                    collector_number |-> collector_number,
                    set_size |-> set_size,
                    copyright_year |-> year,
                    confidence |-> oai_conf],
         best |-> best,
         matches |-> matches,
         needs_review |-> \/ needs_review_of(best, set_size, year, collector_number, name)
                          \/ IsNone(oai_conf)
                          \/ Val(oai_conf) < 50]

\* The outcome run writes for one record.  run hands the number text to
\* lookup_best_match under the name collector_number, together with set_size and
\* copyright_year; lookup_best_match declares the number text as card_number_text
\* and declares neither of the two filters, so that they reach no query: here the
\* number text is bound to card_number_text and the two filters to nothing.
Outcome(rec, k, con) ==
    LET name == strip(OrEmpty(rec.card_name))
        collector_number == strip(OrEmpty(rec.collector_number))
        set_size == to_int(rec.set_size)
        year == to_int(rec.copyright_year)
        matches == lookup_best_match(con, name, collector_number, k)
        best == best_of(matches)
    IN  [image |-> rec.image,
         input |-> [card_name |-> name,
                    collector_number |-> collector_number,
                    set_size |-> set_size,
                    copyright_year |-> year,
                    confidence |-> to_float(rec.confidence)],
         best |-> best,
         matches |-> matches,
         needs_review |-> needs_review_of(best, set_size, year, collector_number, name)]

ReviewRow(i, out) ==
    [idx |-> i,
     image |-> out.image,
     input_name |-> out.input.card_name,
     input_collector |-> out.input.collector_number,
     set_size |-> out.input.set_size,
     copyright_year |-> out.input.copyright_year,
     oai_conf |-> out.input.confidence,
     best_name |-> IF IsNone(out.best) THEN << >> ELSE Val(out.best).card_name,
     best_number |-> IF IsNone(out.best) THEN << >> ELSE Val(out.best).card_number,
     best_set_slug |-> None,
     best_ungraded_price |-> IF IsNone(out.best) THEN None ELSE Val(out.best).ungraded_price,
     best_score |-> IF IsNone(out.best) THEN None ELSE Some(Val(out.best).score),
     best_url |-> IF IsNone(out.best) THEN "" ELSE Val(out.best).card_url,
     needs_review |-> out.needs_review]

\* One turn of run's for loop on a line that is skipped: before start_at, or blank
RunSkipLine ==
    /\ pc = "loop"
    /\ idx < Len(lines)
    /\ (idx < start_at \/ lines[idx + 1].kind = "blank")
    /\ idx' = idx + 1
    /\ UNCHANGED <<pc, arg, ret, fuzz, cards, set_meta, lines, top_k, candidates, fout, review_rows,
                   db, con_log>>

\* The exception that ends run on a line: json.loads on a line that is no JSON,
\* .strip() on a name or number that is no text, the store's exception that
\* lookup_best_match lets through; run has no try
RunError(line, store) ==
    IF line.kind = "garbage" THEN Some("json.JSONDecodeError")
    ELSE IF StripRaises(line.rec.card_name) \/ StripRaises(line.rec.collector_number)
    THEN Some("AttributeError")
    ELSE sqlite_error(store, strip(OrEmpty(line.rec.card_name)),
                      strip(OrEmpty(line.rec.collector_number)))

\* One turn of run's for loop on a record: parse, look up, decide, write
RunLine ==
    /\ pc = "loop"
    /\ idx < Len(lines)
    /\ idx >= start_at
    /\ lines[idx + 1].kind = "json"
    /\ IsNone(RunError(lines[idx + 1], db))
    /\ LET rec == lines[idx + 1].rec
           out == Outcome(rec, top_k, cards)
       IN  /\ candidates' = fetch_candidates(cards, out.input.card_name,
                                             out.input.collector_number, FetchLimit)
           /\ fout' = Append(fout, out)
           /\ review_rows' = Append(review_rows, ReviewRow(idx, out))
           /\ con_log' = con_log \o Accesses(db, out.input.card_name, out.input.collector_number)
    /\ db' = connect(db)
    /\ idx' = idx + 1
    /\ UNCHANGED <<pc, arg, ret, fuzz, cards, set_meta, lines, top_k>>

\* One turn of run's for loop on a line that raises: the exception leaves run, the
\* with statement closes both files, and the review sheet is not written
RunRaise ==
    /\ pc = "loop"
    /\ idx < Len(lines)
    /\ idx >= start_at
    /\ lines[idx + 1].kind # "blank"
    /\ ~IsNone(RunError(lines[idx + 1], db))
    /\ pc' = "raised"
    /\ ret' = RunError(lines[idx + 1], db)
    /\ LET line == lines[idx + 1]
           parsed == line.kind = "json" /\ ~StripRaises(line.rec.card_name)
                                       /\ ~StripRaises(line.rec.collector_number)
       IN  /\ con_log' = IF parsed
                         THEN con_log \o Accesses(db, strip(OrEmpty(line.rec.card_name)),
                                                  strip(OrEmpty(line.rec.collector_number)))
                         ELSE con_log
           /\ db' = IF parsed THEN connect(db) ELSE db
    /\ UNCHANGED <<arg, fuzz, cards, set_meta, lines, top_k, idx, candidates, fout, review_rows>>

\* The loop has read every line: run writes the review sheet and returns
RunFinish ==
    /\ pc = "loop"
    /\ idx = Len(lines)
    /\ pc' = "done"
    /\ UNCHANGED <<arg, ret, fuzz, cards, set_meta, lines, top_k, idx, candidates, fout, review_rows,
                   db, con_log>>

\* ------------------------------------------------------------------ single calls

NoFuzz == [WRatio |-> << >>, partial_ratio |-> << >>]

\* The batch driver's state while a function is called on its own
RunUnused ==
    /\ cards = << >>
    /\ set_meta = {}
    /\ lines = << >>
    /\ top_k = 0
    /\ idx = 0
    /\ candidates = << >>
    /\ fout = << >>
    /\ review_rows = << >>
    /\ db = "ok"
    /\ con_log = << >>

RunUnchanged ==
    UNCHANGED <<cards, set_meta, lines, top_k, idx, candidates, fout, review_rows, db, con_log>>

\* Bound on the length of the number texts given to extract_int
MaxNumLen == 5

NumAlphabet == {"0", "1", "5", "V", "/"}

T_103_165 == <<"1", "0", "3", "/", "1", "6", "5">>

T_053_182 == <<"0", "5", "3", "/", "1", "8", "2">>

T_hash245 == <<"#", "2", "4", "5">>

T_SV1V_053 == <<"S", "V", "1", "V", " ", "0", "5", "3">>

NumTexts == SeqsUpTo(NumAlphabet, MaxNumLen) \cup {T_103_165, T_053_182, T_hash245, T_SV1V_053}

InitExtract ==
    /\ pc = "call"
    /\ arg \in {[num_text |-> t] : t \in NumTexts}
    /\ ret = << >>
    /\ fuzz = NoFuzz
    /\ RunUnused

CallExtractInt ==
    /\ pc = "call"
    /\ "num_text" \in DOMAIN arg
    /\ ret' = <<extract_int(arg.num_text)>>
    /\ pc' = "ret"
    /\ UNCHANGED <<arg, fuzz>>
    /\ RunUnchanged

NextExtract == CallExtractInt

SpecExtract == InitExtract /\ [][NextExtract]_vars

\* Bound on the length of the texts given to to_int
MaxConvLen == 3

ConvAlphabet == {"1", "6", " ", ".", "x", "-"}

\* Values a record may hold as set_size or copyright_year
IntInputs ==
    {Null, JInt(165), JInt(0), JBool(TRUE), JFloat(16550), JFloat(16500)}
        \cup {JStr(t) : t \in SeqsUpTo(ConvAlphabet, MaxConvLen)}

InitConvert ==
    /\ pc = "call"
    /\ arg \in {[x |-> v] : v \in IntInputs} \cup {[num_text |-> t] : t \in NumTexts}
    /\ ret = << >>
    /\ fuzz = NoFuzz
    /\ RunUnused

CallToInt ==
    /\ pc = "call"
    /\ "x" \in DOMAIN arg
    /\ pc' = IF to_int_call(arg.x).raised THEN "raised" ELSE "ret"
    /\ ret' = IF to_int_call(arg.x).raised THEN <<to_int_call(arg.x).exc>>
                                           ELSE <<to_int_call(arg.x).value>>
    /\ UNCHANGED <<arg, fuzz>>
    /\ RunUnchanged

NextConvert == CallToInt \/ CallExtractInt

SpecConvert == InitConvert /\ [][NextConvert]_vars

\* Bound on the length of the number texts given to number_similarity
MaxSimLen == 2

SimAlphabet == {"0", "3", "5", "V"}

SimTexts == SeqsUpTo(SimAlphabet, MaxSimLen)

\* Values fuzz.partial_ratio may return for a pair of texts: 100 for equal texts, 0
\* when exactly one is empty (for two empty texts 100, or 0 in older versions of the
\* library), and otherwise some value in 0..100, of which three are taken.
PRSamples(s1, s2) ==
    IF s1 = << >> /\ s2 = << >> THEN {0, 100}
    ELSE IF s1 = << >> \/ s2 = << >> THEN {0}
    ELSE IF s1 = s2 THEN {100}
    ELSE {0, 50, 100}

SimArgs == {[input_num_text |-> a, candidate_num_text |-> b] : a \in SimTexts, b \in SimTexts}

Normalizing(a) == ~IsNone(extract_int(a.input_num_text)) /\ ~IsNone(extract_int(a.candidate_num_text))

InitNumSim ==
    /\ pc = "call"
    /\ \/ arg \in {a \in SimArgs : Normalizing(a)}
       \/ arg \in {a \in SimArgs : ~Normalizing(a)}
    /\ ret = << >>
    /\ \E v \in PRSamples(arg.input_num_text, arg.candidate_num_text) :
          fuzz = [WRatio |-> << >>,
                  partial_ratio |-> [p \in {<<arg.input_num_text, arg.candidate_num_text>>} |-> v]]
    /\ RunUnused

CallNumberSimilarity ==
    /\ pc = "call"
    /\ ret' = <<number_similarity(arg.input_num_text, arg.candidate_num_text)>>
    /\ pc' = "ret"
    /\ UNCHANGED <<arg, fuzz>>
    /\ RunUnchanged

NextNumSim == CallNumberSimilarity

SpecNumSim == InitNumSim /\ [][NextNumSim]_vars

\* Scores given to the combination: every integer name score, and the number scores
\* number_similarity can return
NumScores == {0, 40, 50, 70, 100}

InitScore ==
    /\ pc = "call"
    /\ arg \in {[name_score |-> a, num_score |-> b] : a \in 0..100, b \in NumScores}
    /\ ret = << >>
    /\ fuzz = NoFuzz
    /\ RunUnused

CallCombinedScore ==
    /\ pc = "call"
    /\ ret' = <<combined_score(arg.name_score, arg.num_score)>>
    /\ pc' = "ret"
    /\ UNCHANGED <<arg, fuzz>>
    /\ RunUnchanged

NextScore == CallCombinedScore

SpecScore == InitScore /\ [][NextScore]_vars

\* ------------------------------------------------------------------ batch run

N_Mew == <<"M", "e", "w">>

N_Mew_ex == <<"M", "e", "w", " ", "e", "x">>

N_Abra == <<"A", "b", "r", "a">>

T_53_165 == <<"5", "3", "/", "1", "6", "5">>

Card(url, slug, name, number, cents) ==
    [card_url |-> url, set_slug |-> slug, card_name |-> name, card_number |-> number,
     ungraded_price |-> Some(cents), grade9_price |-> None, psa10_price |-> None]

\* Rows the cards table may hold, in rowid order: the number as printed, zero-padded,
\* inside a longer number, and another number
CardUniverse ==
    <<Card("u1", "s165-2023", N_Mew, <<"5", "3">>, 250),
      Card("u2", "s102-1999", N_Abra, <<"0", "5", "3">>, 120),
      Card("u3", "jp165-2023", N_Mew_ex, <<"1", "5", "3">>, 900),
      Card("u4", "s165-2022", N_Mew, <<"7">>, 75)>>

Catalogs == {SelectRows(CardUniverse, keep) : keep \in SUBSET (1..Len(CardUniverse))}

SetMeta(slug, base, year, lang) ==
    [set_slug |-> slug, base_total |-> base, released_year |-> year, language |-> lang]

\* set_meta: language is 'English' for a set the backfill reached and NULL otherwise
SetUniverse ==
    {SetMeta("s165-2023", Some(165), Some(2023), "English"),
     SetMeta("s165-2022", Some(165), Some(2022), "English"),
     SetMeta("s102-1999", Some(102), Some(1999), "English"),
     SetMeta("jp165-2023", Some(165), Some(2023), "NULL")}

RecordUniverse ==
    {[image |-> "front.jpg", card_name |-> n, collector_number |-> c, set_size |-> z,
      copyright_year |-> y, confidence |-> JFloat(90)] :
        n \in {JStr(<< >>), JStr(N_Mew)},
        c \in {JStr(<< >>), JStr(T_53_165)},
        z \in {Null, JInt(165)},
        y \in {Null, JInt(2023)}}

LineUniverse ==
    {[kind |-> "blank"], [kind |-> "garbage"]}
        \cup {[kind |-> "json", rec |-> r] : r \in RecordUniverse}

\* Bound on the number of lines of the input file
MaxLines == 1

TopKs == {1, 10}

\* Values fuzz.WRatio may return for a pair of names: 100 for equal names, otherwise
\* some value in 0..100, of which two are taken
WRSamples(s1, s2) == IF s1 = s2 THEN {100} ELSE {60, 90}

\* The tables of the library's values for the pairs a run can ask for: WRatio for a
\* non-empty input name and a stored name, partial_ratio for an input number and a
\* stored number of which one does not normalize
FuzzTables(names, numbers, con) ==
    LET wr_pairs == {<<a, con[i].card_name>> : a \in names \ {<< >>}, i \in 1..Len(con)}
        pr_pairs == {q \in {<<a, con[i].card_number>> : a \in numbers, i \in 1..Len(con)} :
                        IsNone(extract_int(q[1])) \/ IsNone(extract_int(q[2]))}
    IN  {[WRatio |-> w, partial_ratio |-> p] :
            w \in {f \in [wr_pairs -> {60, 90, 100}] : \A q \in wr_pairs : f[q] \in WRSamples(q[1], q[2])},
            p \in {f \in [pr_pairs -> {0, 50, 100}] : \A q \in pr_pairs : f[q] \in PRSamples(q[1], q[2])}}

InitRun ==
    /\ pc = "loop"
    /\ arg = << >>
    /\ ret = << >>
    /\ cards \in Catalogs
    /\ set_meta \in {SetUniverse, {}}
    /\ lines \in SeqsUpTo(LineUniverse, MaxLines)
    /\ top_k \in TopKs
    /\ fuzz \in FuzzTables({<< >>, N_Mew}, {<< >>, T_53_165}, cards)
    /\ idx = 0
    /\ candidates = << >>
    /\ fout = << >>
    /\ review_rows = << >>
    /\ db = "ok"
    /\ con_log = << >>

NextRun == RunSkipLine \/ RunLine \/ RunRaise \/ RunFinish

SpecRun == InitRun /\ [][NextRun]_vars

\* ------------------------------------------------------------------ lookup_best_match called

\* Values of top_k given to lookup_best_match, which takes any integer
LookupTopKs == {-1, 0, 1, 2, 5}

LookupArgs ==
    {[card_name |-> n, card_number_text |-> c, top_k |-> k] :
        n \in {<< >>, N_Mew}, c \in {<< >>, T_53_165}, k \in LookupTopKs}

InitLookup ==
    /\ pc = "call"
    /\ arg \in LookupArgs
    /\ ret = << >>
    /\ db \in Stores
    /\ cards \in IF db = "ok" THEN Catalogs ELSE {<< >>}
    /\ fuzz \in FuzzTables({<< >>, N_Mew}, {<< >>, T_53_165}, cards)
    /\ set_meta = {}
    /\ lines = << >>
    /\ top_k = 0
    /\ idx = 0
    /\ candidates = << >>
    /\ fout = << >>
    /\ review_rows = << >>
    /\ con_log = << >>

\* lookup_best_match(DB_PATH, card_name, card_number_text, top_k): connect, fetch,
\* close, then score, sort and slice; an exception of the fetch leaves the function
\* after the close
CallLookupBestMatch ==
    /\ pc = "call"
    /\ LET e == sqlite_error(db, arg.card_name, arg.card_number_text)
       IN  /\ pc' = IF IsNone(e) THEN "ret" ELSE "raised"
           /\ ret' = IF IsNone(e)
                     THEN <<lookup_best_match(cards, arg.card_name, arg.card_number_text, arg.top_k)>>
                     ELSE e
           /\ candidates' = IF IsNone(e)
                            THEN fetch_candidates(cards, arg.card_name, arg.card_number_text,
                                                  FetchLimit)
                            ELSE candidates
    /\ con_log' = con_log \o Accesses(db, arg.card_name, arg.card_number_text)
    /\ db' = connect(db)
    /\ UNCHANGED <<arg, fuzz, cards, set_meta, lines, top_k, idx, fout, review_rows>>

NextLookup == CallLookupBestMatch

SpecLookup == InitLookup /\ [][NextLookup]_vars

\* ------------------------------------------------------------------ run on a batch

\* A record as identify_from_manifest writes it for an identified card
R_Mew ==
    [image |-> "front.jpg", card_name |-> JStr(N_Mew), collector_number |-> JStr(T_53_165),
     set_size |-> JInt(165), copyright_year |-> JInt(2023), confidence |-> JFloat(90)]

\* The record identify_from_manifest writes when the identification failed: the
\* manifest's fields and "error", none of the card's fields (rec.get gives None)
R_error ==
    [image |-> "front.jpg", card_name |-> Null, collector_number |-> Null,
     set_size |-> Null, copyright_year |-> Null, confidence |-> Null]

\* The same card read with another confidence, a failed identification, and a
\* record whose card_name is a number
BatchRecords ==
    {R_Mew,
     [R_Mew EXCEPT !.confidence = JFloat(20)],
     R_error,
     [R_Mew EXCEPT !.card_name = JInt(7)]}

BatchLines ==
    {[kind |-> "blank"], [kind |-> "garbage"]}
        \cup {[kind |-> "json", rec |-> r] : r \in BatchRecords}

\* Bound on the number of lines of a batch
MaxBatch == 3

InitBatch ==
    /\ pc = "loop"
    /\ arg = << >>
    /\ ret = << >>
    /\ db \in Stores
    /\ cards \in IF db = "ok" THEN {CardUniverse, << >>} ELSE {<< >>}
    /\ set_meta = SetUniverse
    /\ lines \in SeqsUpTo(BatchLines, MaxBatch)
    /\ top_k = 10
    /\ fuzz \in FuzzTables({<< >>, N_Mew}, {<< >>, T_53_165}, cards)
    /\ idx = 0
    /\ candidates = << >>
    /\ fout = << >>
    /\ review_rows = << >>
    /\ con_log = << >>

SpecBatch == InitBatch /\ [][NextRun]_vars

\* ------------------------------------------------------------------ ingestion

\* The columns of cards that an ingested row supplies, card_url first
IngestColumns ==
    {"card_url", "set_url", "product_id", "card_name", "card_number", "image_url",
     "ungraded_price", "grade9_price", "psa10_price"}

\* INSERT ... ON CONFLICT(card_url) DO UPDATE SET the eight other columns: the row
\* of the card_url keeps its place and its set_slug; a new row has set_slug NULL
upsert_row_ignore_conflict(table, row) ==
    IF \E i \in 1..Len(table) : table[i].card_url = row.card_url
    THEN table
    ELSE Append(table, [c \in IngestColumns \cup {"set_slug"} |->
                           IF c = "set_slug" THEN None ELSE row[c]])

upsert_row(table, row) ==
    IF \E i \in 1..Len(table) : table[i].card_url = row.card_url
    THEN [i \in 1..Len(table) |->
             IF table[i].card_url = row.card_url
             THEN [c \in IngestColumns \cup {"set_slug"} |->
                      IF c = "set_slug" THEN table[i].set_slug ELSE row[c]]
             ELSE table[i]]
    ELSE Append(table, [c \in IngestColumns \cup {"set_slug"} |->
                           IF c = "set_slug" THEN None ELSE row[c]])

\* cur.executemany(..., rows): the statement for each row in turn
RECURSIVE upsert_cards(_, _)
upsert_cards(table, rows) ==
    IF rows = << >> THEN table
    ELSE upsert_cards(upsert_row(table, Head(rows)), Tail(rows))

\* slug_from_set_url: the last non-empty segment of the path, "" when there is none
\* (set_url is given here as its path)
slug_from_set_url(set_url) ==
    LET solid == {i \in 1..Len(set_url) : set_url[i] # "/"}
    IN  IF solid = {} THEN << >>
        ELSE LET last == Max(solid)
                 first == Min({i \in 1..last : \A k \in i..last : set_url[k] # "/"})
             IN  SubSeq(set_url, first, last)

\* A scraped row: the page of the set it was found on and what the page showed
IngestRow(url, set_url, v) ==
    [card_url |-> url, set_url |-> set_url, product_id |-> <<"p", v>>,
     card_name |-> IF v = "1" THEN N_Mew ELSE N_Mew_ex,
     card_number |-> <<"5", v>>, image_url |-> <<"i", v>>,
     ungraded_price |-> IF v = "1" THEN Some(250) ELSE None,
     grade9_price |-> IF v = "1" THEN None ELSE Some(900),
     psa10_price |-> IF v = "1" THEN Some(1200) ELSE Some(1500)]

IngestRows ==
    {IngestRow(url, set_url, v) :
        url \in {"u1", "u2"},
        set_url \in {<<"/", "c", "/", "a">>, <<"/", "c", "/", "b", "/">>},
        v \in {"1", "2"}}

InitIngest ==
    /\ pc = "ingest"
    /\ arg = [rows |-> << >>]
    /\ ret = << >>
    /\ fuzz = NoFuzz
    /\ RunUnused

\* upsert_cards(con, rows) with the rows of one scraped page, then con.commit()
UpsertCards ==
    /\ pc \in {"ingest", "upserted", "backfilled"}
    /\ \E rows \in SeqsUpTo(IngestRows, 2) :
          /\ arg' = [rows |-> rows]
          /\ cards' = upsert_cards(cards, rows)
    /\ pc' = "upserted"
    /\ UNCHANGED <<ret, fuzz, set_meta, lines, top_k, idx, candidates, fout, review_rows,
                   db, con_log>>

\* backfill_set_slug.py: every row whose set_slug is NULL or '' gets the slug of its
\* set_url
BackfillSetSlug ==
    /\ pc \in {"ingest", "upserted", "backfilled"}
    /\ cards' = [i \in 1..Len(cards) |->
                    IF cards[i].set_slug \in {None, Some(<< >>)}
                    THEN [cards[i] EXCEPT !.set_slug = Some(slug_from_set_url(cards[i].set_url))]
                    ELSE cards[i]]
    /\ pc' = "backfilled"
    /\ UNCHANGED <<arg, ret, fuzz, set_meta, lines, top_k, idx, candidates, fout, review_rows,
                   db, con_log>>

NextIngest == UpsertCards \/ BackfillSetSlug

SpecIngest == InitIngest /\ [][NextIngest]_vars

\* ------------------------------------------------------------------ concurrent lookups

\* Bound on the number of lookups under way at the same time
NumProcs == 2

Procs == 1..NumProcs

\* The first query of fetch_candidates: the rows whose number matches
number_pool(con, input_number_text, limit) ==
    LET n == extract_int(input_number_text)
        n_str == StrOfNat(Val(n))
    IN  Limit(Columns(SelectRows(con, {i \in 1..Len(con) : NumberMatches(con[i], n_str)})), limit)

\* The second query of fetch_candidates: the rows whose name holds the first word
name_pool(con, input_name, limit) ==
    Limit(Columns(SelectRows(con, {i \in 1..Len(con) :
                                      Like(con[i].card_name, FirstWord(input_name))})), limit)

\* candidates.extend(cur.fetchall()): candidates is a local list of the call
extend_shared(lists, p, rows) == [q \in DOMAIN lists |-> lists[q] \o rows]

extend(lists, p, rows) == [lists EXCEPT ![p] = @ \o rows]

\* The part of lookup_best_match after the fetch: score, sort, slice
rank_candidates(cands, card_name, card_number_text, k) ==
    IF cands = << >> THEN << >>
    ELSE SliceTo(SortByScoreDesc([i \in 1..Len(cands) |->
                                     ScoreRow(card_name, card_number_text, cands[i])]), k)

\* Each lookup has its own arguments, position, candidates and result
InitConcurrent ==
    /\ pc = [p \in Procs |-> "call"]
    /\ arg \in [Procs -> {[card_name |-> n, card_number_text |-> c, top_k |-> 2] :
                             n \in {<< >>, N_Mew}, c \in {<< >>, T_53_165}}]
    /\ ret = [p \in Procs |-> << >>]
    /\ db \in {"ok", "no_file"}
    /\ cards = IF db = "ok" THEN CardUniverse ELSE << >>
    /\ fuzz = CHOOSE f \in FuzzTables({<< >>, N_Mew}, {<< >>, T_53_165}, cards) : TRUE
    /\ candidates = [p \in Procs |-> << >>]
    /\ set_meta = {}
    /\ lines = << >>
    /\ top_k = 0
    /\ idx = 0
    /\ fout = << >>
    /\ review_rows = << >>
    /\ con_log = << >>

ConcurrentUnchanged == UNCHANGED <<arg, fuzz, cards, set_meta, lines, top_k, idx, fout, review_rows>>

\* con = sqlite3.connect(db_path)
LookupConnect(p) ==
    /\ pc[p] = "call"
    /\ pc' = [pc EXCEPT ![p] = "connected"]
    /\ db' = connect(db)
    /\ con_log' = Append(con_log, "connect")
    /\ UNCHANGED <<ret, candidates>>
    /\ ConcurrentUnchanged

\* A query of fetch_candidates, when it runs nothing, fails (and the finally clause
\* closes), or extends the candidates of this call
LookupQuery(p, at, skip, rows, next) ==
    /\ pc[p] = at
    /\ IF skip
       THEN /\ pc' = [pc EXCEPT ![p] = next]
            /\ UNCHANGED <<ret, candidates, con_log>>
       ELSE IF db # "ok"
       THEN /\ pc' = [pc EXCEPT ![p] = "raised"]
            /\ ret' = [ret EXCEPT ![p] = sqlite_error(db, arg[p].card_name, arg[p].card_number_text)]
            /\ con_log' = con_log \o <<"execute", "close">>
            /\ UNCHANGED candidates
       ELSE /\ pc' = [pc EXCEPT ![p] = next]
            /\ candidates' = extend(candidates, p, rows)
            /\ con_log' = Append(con_log, "execute")
            /\ UNCHANGED ret
    /\ UNCHANGED db
    /\ ConcurrentUnchanged

LookupQueryNumber(p) ==
    LookupQuery(p, "connected", IsNone(extract_int(arg[p].card_number_text)),
                number_pool(cards, arg[p].card_number_text, FetchLimit), "numbered")

LookupQueryName(p) ==
    LookupQuery(p, "numbered", FirstWord(arg[p].card_name) = << >>,
                name_pool(cards, arg[p].card_name, FetchLimit), "named")

\* de-dupe, con.close(), then score, sort, slice and return
LookupReturn(p) ==
    /\ pc[p] = "named"
    /\ pc' = [pc EXCEPT ![p] = "ret"]
    /\ candidates' = [candidates EXCEPT ![p] = DedupByUrl(@, {})]
    /\ ret' = [ret EXCEPT ![p] = <<rank_candidates(DedupByUrl(candidates[p], {}), arg[p].card_name,
                                                   arg[p].card_number_text, arg[p].top_k)>>]
    /\ con_log' = Append(con_log, "close")
    /\ UNCHANGED db
    /\ ConcurrentUnchanged

NextConcurrent ==
    \E p \in Procs :
        LookupConnect(p) \/ LookupQueryNumber(p) \/ LookupQueryName(p) \/ LookupReturn(p)

SpecConcurrent == InitConcurrent /\ [][NextConcurrent]_vars

\* ------------------------------------------------------------------ scoring one candidate

\* Values fuzz.WRatio may return for a pair of names, here with both ends of its range
WRatioRange(s1, s2) == IF s1 = s2 THEN {100} ELSE {0, 50, 87, 100}

\* Names and number texts asked for: none, one that normalizes, one that does not
ScoreRowArgs ==
    {[card_name |-> n, card_number_text |-> c, row |-> Card("u1", "s165-2023", rn, sn, 250)] :
        n \in {<< >>, N_Mew}, c \in {<< >>, T_53_165, <<"V">>},
        rn \in {N_Mew, N_Mew_ex}, sn \in SimTexts}

InitScoreRow ==
    /\ pc = "call"
    /\ arg \in ScoreRowArgs
    /\ ret = << >>
    /\ \E w \in WRatioRange(arg.card_name, arg.row.card_name),
          v \in PRSamples(arg.card_number_text, arg.row.card_number) :
          fuzz = [WRatio |-> [p \in {<<arg.card_name, arg.row.card_name>>} |-> w],
                  partial_ratio |-> [p \in {<<arg.card_number_text, arg.row.card_number>>} |-> v]]
    /\ RunUnused

\* One turn of the scoring loop of lookup_best_match
CallScoreRow ==
    /\ pc = "call"
    /\ ret' = <<ScoreRow(arg.card_name, arg.card_number_text, arg.row)>>
    /\ pc' = "ret"
    /\ UNCHANGED <<arg, fuzz>>
    /\ RunUnchanged

NextScoreRow == CallScoreRow

SpecScoreRow == InitScoreRow /\ [][NextScoreRow]_vars

\* ------------------------------------------------------------------ set_meta population

\* def digits_int(x): the digits of the text, whatever stands between them
digits_int(x) ==
    IF IsNone(x) THEN None
    ELSE LET s == strip(Val(x))
             d == SelectSeq(s, IsDigit)
         IN  IF s = << >> THEN None
             ELSE IF d = << >> THEN None
             ELSE Some(IntOfDigits(d))

\* def first_nonempty(*vals): the first value that is not None and not blank, stripped
RECURSIVE first_nonempty(_)
first_nonempty(vals) ==
    IF vals = << >> THEN None
    ELSE IF IsNone(vals[1]) \/ strip(Val(vals[1])) = << >> THEN first_nonempty(Tail(vals))
    ELSE Some(strip(Val(vals[1])))

\* The set identifiers of the sets CSV and of SET_MAP
MetaSlugs == {"s165-2023", "pokemon-journey-together"}

\* Cells of the denominations CSV: empty, or a run of digits
BaseTotalCells == {<< >>, <<"0">>, <<"1", "6", "5">>}

ReleasedYearCells == {<< >>, <<"2", "0", "2", "3">>, <<"9", "9">>}

\* csv.DictReader rows of the denominations CSV; it has no cards, set_size, year or
\* release_year column, so row.get of these is None
DenomRows ==
    {[base_total |-> b, released_year |-> y] : b \in BaseTotalCells, y \in ReleasedYearCells}

\* INSERT OR IGNORE INTO set_meta (set_slug, pc_list_a_name): every other column NULL
insert_or_ignore(table, slug) ==
    IF \E r \in table : r.set_slug = slug THEN table
    ELSE table \cup {SetMeta(slug, None, None, "NULL")}

\* COALESCE(?, column)
COALESCE(new, old) == IF IsNone(new) THEN old ELSE new

\* The UPDATE of backfill_set_meta.main for one mapped set and its denominations row
backfill_row(table, pc_slug, row) ==
    LET base_total == digits_int(first_nonempty(<<Some(row.base_total), None, None>>))
        released_year == digits_int(first_nonempty(<<Some(row.released_year), None, None>>))
    IN  {IF r.set_slug = pc_slug
         THEN SetMeta(r.set_slug, COALESCE(base_total, r.base_total),
                      COALESCE(released_year, r.released_year), "English")
         ELSE r : r \in table}

RECURSIVE backfill_rows(_, _, _)
backfill_rows(table, slugs, denoms) ==
    IF slugs = {} THEN table
    ELSE LET pc_slug == CHOOSE s \in slugs : TRUE
         IN  backfill_rows(backfill_row(table, pc_slug, denoms[pc_slug]), slugs \ {pc_slug}, denoms)

RECURSIVE insert_rows(_, _)
insert_rows(table, slugs) ==
    IF slugs = {} THEN table
    ELSE LET slug == CHOOSE s \in slugs : TRUE
         IN  insert_rows(insert_or_ignore(table, slug), slugs \ {slug})

\* create_set_meta.main: an empty table
InitSetMeta ==
    /\ pc = "created"
    /\ arg = << >>
    /\ ret = << >>
    /\ fuzz = NoFuzz
    /\ cards = << >>
    /\ set_meta = {}
    /\ lines = << >>
    /\ top_k = 0
    /\ idx = 0
    /\ candidates = << >>
    /\ fout = << >>
    /\ review_rows = << >>
    /\ db = "ok"
    /\ con_log = << >>

SetMetaUnchanged ==
    UNCHANGED <<ret, fuzz, cards, lines, top_k, idx, candidates, fout, review_rows, db, con_log>>

\* insert_pc_sets.main on a sets CSV
InsertPcSets ==
    \E slugs \in SUBSET MetaSlugs :
        /\ set_meta' = insert_rows(set_meta, slugs)
        /\ pc' = "inserted"
        /\ arg' = [slugs |-> slugs]
        /\ SetMetaUnchanged

\* backfill_set_meta.main: for every set of SET_MAP that set_meta holds and whose
\* title the denominations CSV holds, the UPDATE with this row
BackfillSetMeta ==
    \E mapped \in SUBSET MetaSlugs :
        \E denoms \in [mapped -> DenomRows] :
            /\ set_meta' = backfill_rows(set_meta,
                               {s \in mapped : \E r \in set_meta : r.set_slug = s}, denoms)
            /\ pc' = "backfilled"
            /\ arg' = [denoms |-> denoms]
            /\ SetMetaUnchanged

\* update_journey_together.py
UpdateJourneyTogether ==
    /\ set_meta' = {IF r.set_slug = "pokemon-journey-together"
                    THEN SetMeta(r.set_slug, Some(159), r.released_year, r.language)
                    ELSE r : r \in set_meta}
    /\ pc' = "updated"
    /\ arg' = << >>
    /\ SetMetaUnchanged

NextSetMeta == InsertPcSets \/ BackfillSetMeta \/ UpdateJourneyTogether

SpecSetMeta == InitSetMeta /\ [][NextSetMeta]_vars

\* ------------------------------------------------------------------ build_ebay_batch_csv.py

\* str.lower()
lower(s) == [i \in 1..Len(s) |-> LowerChar(s[i])]

TrueWords ==
    {<<"1">>, <<"t", "r", "u", "e">>, <<"t">>, <<"y", "e", "s">>, <<"y">>}

FalseWords ==
    {<<"0">>, <<"f", "a", "l", "s", "e">>, <<"f">>, <<"n", "o">>, <<"n">>, << >>}

\* def parse_boolish(v) on a cell of the sheet (a text, or None for a missing column)
parse_boolish(v) ==
    IF IsNone(v) THEN FALSE
    ELSE LET s == lower(strip(Val(v)))
         IN  IF s \in TrueWords THEN TRUE
             ELSE IF s \in FalseWords THEN FALSE
             ELSE TRUE

\* def parse_float(val) on a cell, in hundredths: "$" and "," go, then every
\* character that is no digit and no point, then float()
parse_float(val) ==
    IF IsNone(val) THEN None
    ELSE LET s == SelectSeq(strip(Val(val)), LAMBDA c : IsDigit(c) \/ c = ".")
         IN  IF strip(Val(val)) = << >> THEN None
             ELSE IF s = << >> THEN None
             ELSE ParseFloat(s)

\* int(x) of a float x given in hundredths, None when there is none
int_of_float(h) ==
    IF IsNone(h) THEN None
    ELSE Some(IF Val(h) >= 0 THEN Val(h) \div 100 ELSE 0 - ((0 - Val(h)) \div 100))

\* def parse_int(val) on a cell: int(float(str(val).strip())), None when that raises
parse_int(val) ==
    IF IsNone(val) \/ Val(val) = << >> THEN None
    ELSE int_of_float(ParseFloat(strip(Val(val))))

\* round(x, 2) of a float whose exact value is t ten-thousandths, in hundredths: the
\* nearest hundredth; on a tie the binary value of the float decides, either way
Round2(t) ==
    IF t % 100 = 50 THEN {t \div 100, t \div 100 + 1}
    ELSE IF t % 100 > 50 THEN {t \div 100 + 1}
    ELSE {t \div 100}

\* def compute_raw_price(best_ungraded_price), in hundredths: the values round() can give
compute_raw_price(best_ungraded_price) ==
    LET m == Max({249, best_ungraded_price})
    IN  IF m >= 500 THEN Round2(m * 125) ELSE Round2((m + 150) * 100)

pretty_cents_49_or_95_below_49(x) ==
    LET dollars == x \div 100
        cents == x - 100 * dollars
    IN  IF cents < 49 THEN 100 * dollars + 49 ELSE 100 * dollars + 95

\* def pretty_cents_49_or_95(x), in hundredths
pretty_cents_49_or_95(x) ==
    LET dollars == x \div 100
        cents == x - 100 * dollars
    IN  IF cents <= 49 THEN 100 * dollars + 49 ELSE 100 * dollars + 95

\* --max-ungraded and --max-final, in hundredths
max_ungraded == 2000

max_final == 2000

\* man_by_idx.get(k), ident_by_idx.get(k): the last record of the file with this index
by_idx(rows, k) ==
    LET at == {i \in 1..Len(rows) : rows[i].listing_index = k}
    IN  IF at = {} THEN None ELSE Some(rows[Max(at)])

\* The final price of a row: the cents rule takes the ties of round() to one value
final_price(ungraded) ==
    pretty_cents_49_or_95(Min(compute_raw_price(ungraded)))

Listing_best_unchecked(r, manifest_rows, ident_rows) ==
    LET idx0 == parse_int(Some(r.idx))
        manifest_idx == Val(idx0) + 1
        man == by_idx(manifest_rows, manifest_idx)
        ident == by_idx(ident_rows, manifest_idx)
        front_url == strip(Val(man).front_url)
        back_url == strip(Val(man).back_url)
        best_name == strip(r.best_name)
        best_number == strip(r.best_number)
        best_set_slug == strip(r.best_set_slug)
        ungraded == parse_float(Some(r.best_ungraded_price))
        year == parse_int(Some(r.copyright_year))
    IN  IF IsNone(idx0) THEN None
        ELSE IF IsNone(man) THEN None
        ELSE IF front_url = << >> \/ back_url = << >> THEN None
        ELSE IF ~IsNone(ungraded) /\ Val(ungraded) >= max_ungraded THEN None
        ELSE IF ~IsNone(ungraded) /\ final_price(Val(ungraded)) >= max_final THEN None
        ELSE Some([card_name |-> best_name,
                   set |-> best_set_slug,
                   card_number |-> best_number,
                   year_manufactured |->
                       IF ~IsNone(year) THEN year
                       ELSE IF IsNone(ident) THEN None
                       ELSE parse_int(Some(Val(ident).copyright_year)),
                   language |-> IF IsNone(ident) THEN << >> ELSE strip(Val(ident).language),
                   front_url |-> front_url,
                   back_url |-> back_url,
                   start_price |-> final_price(IF IsNone(ungraded) THEN 0 ELSE Val(ungraded))])

\* One turn of main's loop over the sheet: nothing, or the row of Batch.csv
Listing(r, manifest_rows, ident_rows) ==
    LET idx0 == parse_int(Some(r.idx))
        manifest_idx == Val(idx0) + 1
        man == by_idx(manifest_rows, manifest_idx)
        ident == by_idx(ident_rows, manifest_idx)
        front_url == strip(Val(man).front_url)
        back_url == strip(Val(man).back_url)
        best_name == strip(r.best_name)
        best_number == strip(r.best_number)
        best_set_slug == strip(r.best_set_slug)
        ungraded == parse_float(Some(r.best_ungraded_price))
        year == parse_int(Some(r.copyright_year))
    IN  IF IsNone(idx0) THEN None
        ELSE IF IsNone(man) THEN None
        ELSE IF front_url = << >> \/ back_url = << >> THEN None
        ELSE IF best_name = << >> \/ best_number = << >> \/ best_set_slug = << >> THEN None
        ELSE IF IsNone(ungraded) THEN None
        ELSE IF Val(ungraded) >= max_ungraded THEN None
        ELSE IF final_price(Val(ungraded)) >= max_final THEN None
        ELSE Some([card_name |-> best_name,
                   set |-> best_set_slug,
                   card_number |-> best_number,
                   year_manufactured |->
                       IF ~IsNone(year) THEN year
                       ELSE IF IsNone(ident) THEN None
                       ELSE parse_int(Some(Val(ident).copyright_year)),
                   language |-> IF IsNone(ident) THEN << >> ELSE strip(Val(ident).language),
                   front_url |-> front_url,
                   back_url |-> back_url,
                   start_price |-> final_price(Val(ungraded))])

RECURSIVE approved_rows(_, _, _)
approved_rows(sheet, manifest_rows, ident_rows) ==
    IF sheet = << >> THEN << >>
    ELSE LET row == Listing(sheet[1], manifest_rows, ident_rows)
         IN  (IF IsNone(row) THEN << >> ELSE <<Val(row)>>)
                 \o approved_rows(Tail(sheet), manifest_rows, ident_rows)

\* ------------------------------------------------------------------ the builder on a sheet

\* Bound on the number of rows of tmp/match_review.csv
MaxSheet == 2

\* Bound on the number of front/back pairs of the manifest
MaxPairs == 2

T_True == <<"T", "r", "u", "e">>

T_False == <<"F", "a", "l", "s", "e">>

T_maybe == <<"m", "a", "y", "b", "e">>

T_slug == <<"p", "o", "k", "e", "m", "o", "n", "-", "1", "5", "1">>

\* The record upload_and_manifest writes for pair k
ManifestRec(k) ==
    [listing_index |-> k,
     front_local |-> <<"f">> \o StrOfNat(k),
     front_url |-> <<"u", "/">> \o zfill(StrOfNat(k), 4) \o <<"_", "f">>,
     back_url |-> <<"u", "/">> \o zfill(StrOfNat(k), 4) \o <<"_", "b">>]

Manifest(n) == [k \in 1..n |-> ManifestRec(k)]

\* The fields of tmp/card_identifications.jsonl the builder reads
IdentRec(k) ==
    [listing_index |-> k, language |-> <<"E", "N">>, copyright_year |-> <<"2", "0", "2", "3">>]

\* Rows of the sheet: the idx cell, the flag as written by run, by hand, or
\* unrecognised, a match with or without its set, or no match at all, and a price
\* below and above the limit
SheetRows ==
    {[idx |-> i, image |-> <<"f", "1">>, input_collector |-> T_53_165,
      copyright_year |-> << >>, needs_review |-> f,
      best_name |-> b[1], best_number |-> b[2], best_set_slug |-> b[3],
      best_ungraded_price |-> b[4]] :
        i \in {<<"0">>, <<"1">>, << >>},
        f \in {T_True, T_False, T_maybe},
        b \in {<<N_Mew, <<"5", "3">>, T_slug, <<"2", ".", "5">>>>,
               <<N_Mew, <<"5", "3">>, T_slug, <<"2", "5", ".", "0">>>>,
               <<N_Mew, <<"5", "3">>, << >>, <<"2", ".", "5">>>>,
               <<<< >>, << >>, << >>, << >>>>}}

InitBuild ==
    /\ pc = "main"
    /\ review_rows \in SeqsUpTo(SheetRows, MaxSheet)
    /\ \E n \in 0..MaxPairs :
          arg = [manifest_rows |-> Manifest(n), ident_rows |-> [k \in 1..n |-> IdentRec(k)]]
    /\ ret = << >>
    /\ fout = << >>
    /\ fuzz = NoFuzz
    /\ cards = << >>
    /\ set_meta = {}
    /\ lines = << >>
    /\ top_k = 0
    /\ idx = 0
    /\ candidates = << >>
    /\ db = "ok"
    /\ con_log = << >>

\* build_ebay_batch_csv.main on a sheet: the rows written to Batch.csv (the file is
\* written when there is one)
Build(sheet) ==
    /\ ret' = approved_rows(sheet, arg.manifest_rows, arg.ident_rows)
    /\ pc' = "built"
    /\ UNCHANGED <<arg, fuzz, cards, set_meta, lines, top_k, idx, candidates, fout, review_rows,
                   db, con_log>>

BuildBatch ==
    /\ pc = "main"
    /\ Build(review_rows)

NextBuild == BuildBatch

SpecBuild == InitBuild /\ [][NextBuild]_vars

\* ------------------------------------------------------------------ from manifest to Batch.csv

\* How identify_from_manifest ends on one manifest record: the card is read, the
\* front image is missing, or identify_card raises
IdentOutcomes == {"ok", "missing", "error"}

IdentLines_failed_dropped(manifest_rows, outcomes) ==
    LET ok == {k \in 1..Len(manifest_rows) : outcomes[k] = "ok"}
    IN  [j \in 1..Cardinality(ok) |->
            [kind |-> "json",
             rec |-> [R_Mew EXCEPT !.image =
                         manifest_rows[CHOOSE k \in ok : Cardinality({i \in ok : i <= k}) = j]
                             .front_local]]]

\* tmp/card_identifications.jsonl: one line per manifest record, in the manifest's
\* order, the card's fields when it was read and "error" when not; run takes the
\* image from "image" or else from "front_local", which the line has either way
IdentLines(manifest_rows, outcomes) ==
    [k \in 1..Len(manifest_rows) |->
        [kind |-> "json",
         rec |-> [IF outcomes[k] = "ok" THEN R_Mew ELSE R_error
                      EXCEPT !.image = manifest_rows[k].front_local]]]

\* The fields of the same lines the builder reads
IdentRows(manifest_rows, outcomes) ==
    [k \in 1..Len(manifest_rows) |->
        [listing_index |-> manifest_rows[k].listing_index,
         language |-> << >>,
         copyright_year |-> IF outcomes[k] = "ok" THEN StrOfNat(R_Mew.copyright_year.v)
                            ELSE << >>]]

\* csv.DictWriter on a value: str() of it, and "" for None
CellOfInt(o) == IF IsNone(o) THEN << >> ELSE StrOfNat(Val(o))

CellOfFloat(o) == IF IsNone(o) THEN << >> ELSE StrOfFloat(Val(o))

\* The row of tmp/match_review.csv for a row of run's review_rows
SheetRow(row) ==
    [idx |-> StrOfNat(row.idx),
     image |-> row.image,
     input_collector |-> row.input_collector,
     copyright_year |-> CellOfInt(row.copyright_year),
     needs_review |-> IF row.needs_review THEN T_True ELSE T_False,
     best_name |-> row.best_name,
     best_number |-> row.best_number,
     best_set_slug |-> IF IsNone(row.best_set_slug) THEN << >> ELSE Val(row.best_set_slug),
     best_ungraded_price |-> CellOfFloat(row.best_ungraded_price)]

Sheet(rows) == [i \in 1..Len(rows) |-> SheetRow(rows[i])]

\* upload_and_manifest has written the manifest of a batch
InitPipeline ==
    /\ pc = "manifest"
    /\ \E n \in 0..MaxPairs :
          \E outcomes \in [1..n -> IdentOutcomes] :
              arg = [manifest_rows |-> Manifest(n), outcomes |-> outcomes, ident_rows |-> << >>]
    /\ ret = << >>
    /\ db \in {"ok", "no_table"}
    /\ cards = IF db = "ok" THEN CardUniverse ELSE << >>
    /\ fuzz \in FuzzTables({<< >>, N_Mew}, {<< >>, T_53_165}, cards)
    /\ set_meta = SetUniverse
    /\ lines = << >>
    /\ top_k = 10
    /\ idx = 0
    /\ candidates = << >>
    /\ fout = << >>
    /\ review_rows = << >>
    /\ con_log = << >>

\* identify_from_manifest.main
IdentifyFromManifest ==
    /\ pc = "manifest"
    /\ lines' = IdentLines(arg.manifest_rows, arg.outcomes)
    /\ arg' = [arg EXCEPT !.ident_rows = IdentRows(arg.manifest_rows, arg.outcomes)]
    /\ pc' = "loop"
    /\ UNCHANGED <<ret, fuzz, cards, set_meta, top_k, idx, candidates, fout, review_rows,
                   db, con_log>>

\* build_ebay_batch_csv.main on the sheet run has written
BuildFromSheet ==
    /\ pc = "done"
    /\ \E sheet \in {Sheet(review_rows)} : Build(sheet)

\* The file of identifications has no blank line and run starts at line 0, so no
\* line is skipped
NextPipeline == IdentifyFromManifest \/ RunLine \/ RunRaise \/ RunFinish \/ BuildFromSheet

SpecPipeline == InitPipeline /\ [][NextPipeline]_vars

\* ------------------------------------------------------------------ the price of a listing

\* Bound on the ungraded prices priced, in hundredths
MaxPrice == 2500

InitPrice ==
    /\ pc = "call"
    /\ arg \in [best_ungraded_price : 0..MaxPrice]
    /\ ret = << >>
    /\ fuzz = NoFuzz
    /\ RunUnused

\* raw_price = compute_raw_price(ungraded); final_price = pretty_cents_49_or_95(raw_price)
CallPrice ==
    /\ pc = "call"
    /\ \E raw_price \in compute_raw_price(arg.best_ungraded_price) :
          ret' = [raw_price |-> raw_price, final_price |-> pretty_cents_49_or_95(raw_price)]
    /\ pc' = "ret"
    /\ UNCHANGED <<arg, fuzz>>
    /\ RunUnchanged

NextPrice == CallPrice

SpecPrice == InitPrice /\ [][NextPrice]_vars

\* ------------------------------------------------------------------ upload_and_manifest.py

\* Bound on the number of image files of the folder
MaxImages == 4

\* Contents of a front image and of a back image
FrontContents == {"a", "b", "c"}

BackContents == {"k"}

\* def sha256_12(path): the first 12 hex digits of the hash of the content, which
\* two contents can share
sha256_12(content) == IF content \in {"a", "c"} THEN "h1" ELSE IF content = "b" THEN "h2" ELSE "h3"

\* list_images_in_order(images_dir): the image files sorted by name; the scanner
\* numbers them, fronts at the odd positions
Folders ==
    UNION {{f \in [1..n -> [name : 1..n, content : FrontContents \cup BackContents]] :
               \A i \in 1..n :
                   /\ f[i].name = i
                   /\ f[i].content \in (IF i % 2 = 1 THEN FrontContents ELSE BackContents)} :
           n \in 0..MaxImages}

\* f"{prefix}/{idx:04d}_front_{front_hash}{front_ext}"
ObjectName(k, side, file) == <<k, side, sha256_12(file.content)>>

PublicUrl(object_name) == <<"https://storage.googleapis.com", object_name>>

upload_file_always(bucket, file, object_name) ==
    [n \in DOMAIN bucket \cup {object_name} |->
        IF n = object_name THEN file.content ELSE bucket[n]]

\* def upload_file_if_missing(bucket, local_path, object_name): the bucket after it
upload_file_if_missing(bucket, file, object_name) ==
    IF object_name \in DOMAIN bucket THEN bucket
    ELSE [n \in DOMAIN bucket \cup {object_name} |->
             IF n = object_name THEN file.content ELSE bucket[n]]

\* What the call does on the bucket: blob.exists(), and blob.upload_from_filename
\* when it does not exist
BucketCalls(bucket, object_name) ==
    IF object_name \in DOMAIN bucket THEN <<"exists">> ELSE <<"exists", "upload">>

\* The bucket after the pairs 1..k of main's loop
RECURSIVE BucketAfter(_, _, _)
BucketAfter(bucket, files, k) ==
    IF k = 0 THEN bucket
    ELSE LET before == BucketAfter(bucket, files, k - 1)
             front == files[2 * k - 1]
             back == files[2 * k]
         IN  upload_file_if_missing(upload_file_if_missing(before, front, ObjectName(k, "front", front)),
                                    back, ObjectName(k, "back", back))

\* The calls on the bucket for the pairs 1..k
RECURSIVE CallsAfter(_, _, _)
CallsAfter(bucket, files, k) ==
    IF k = 0 THEN << >>
    ELSE LET before == BucketAfter(bucket, files, k - 1)
             front == files[2 * k - 1]
             back == files[2 * k]
         IN  CallsAfter(bucket, files, k - 1)
                 \o BucketCalls(before, ObjectName(k, "front", front))
                 \o BucketCalls(upload_file_if_missing(before, front, ObjectName(k, "front", front)),
                                ObjectName(k, "back", back))

\* The record of pair k in tmp/upload_manifest.jsonl
UploadRec(files, k) ==
    [listing_index |-> k,
     front_local |-> files[2 * k - 1].name,
     back_local |-> files[2 * k].name,
     front_object |-> ObjectName(k, "front", files[2 * k - 1]),
     back_object |-> ObjectName(k, "back", files[2 * k]),
     front_url |-> PublicUrl(ObjectName(k, "front", files[2 * k - 1])),
     back_url |-> PublicUrl(ObjectName(k, "back", files[2 * k]))]

\* An empty bucket, no manifest, and nothing run yet
InitUpload ==
    /\ pc = "start"
    /\ lines = << >>
    /\ db = << >>
    /\ fout = << >>
    /\ con_log = << >>
    /\ arg = << >>
    /\ ret = << >>
    /\ fuzz = NoFuzz
    /\ cards = << >>
    /\ set_meta = {}
    /\ top_k = 0
    /\ idx = 0
    /\ candidates = << >>
    /\ review_rows = << >>

UploadUnchanged == UNCHANGED <<arg, fuzz, cards, set_meta, top_k, idx, candidates, review_rows>>

\* main on a folder, to its end: every pair uploaded or found, the manifest written
UploadAndManifest ==
    \E files \in {f \in Folders : Len(f) % 2 = 0} :
        /\ lines' = files
        /\ db' = BucketAfter(db, files, Len(files) \div 2)
        /\ con_log' = CallsAfter(db, files, Len(files) \div 2)
        /\ fout' = [k \in 1..(Len(files) \div 2) |-> UploadRec(files, k)]
        /\ pc' = "done"
        /\ ret' = << >>
        /\ UploadUnchanged

\* main ended by an exception: pair_front_back on an odd number of files, before
\* anything is written, or a call on the bucket for pair k, after the manifest was
\* opened for writing and the pairs before k were done
UploadRaise ==
    \E files \in Folders :
        /\ lines' = files
        /\ pc' = "raised"
        /\ IF Len(files) % 2 # 0
           THEN /\ ret' = <<"ValueError">>
                /\ UNCHANGED <<db, fout, con_log>>
           ELSE \E k \in 1..(Len(files) \div 2) :
                    /\ ret' = <<"GoogleCloudError">>
                    /\ db' = BucketAfter(db, files, k - 1)
                    /\ con_log' = Append(CallsAfter(db, files, k - 1), "exists")
                    /\ fout' = [j \in 1..(k - 1) |-> UploadRec(files, j)]
        /\ UploadUnchanged

NextUpload == UploadAndManifest \/ UploadRaise

SpecUpload == InitUpload /\ [][NextUpload]_vars

\* ------------------------------------------------------------------ scrape_set_with_retry

\* Bound on max_attempts
MaxAttempts == 3

\* How an attempt goes: the page is fetched, the fetch raises, or no driver can be made
AttemptOutcomes == {"ok", "fetch_error", "no_driver"}

\* The exception of attempt k, and the page of attempt k
ErrorOf(k) == <<"error", k>>

PageOf(k) == <<"html", k>>

last_err_first_kept(last_err, e) == IF IsNone(last_err) THEN Some(e) ELSE last_err

\* except Exception as e: last_err = e
last_err_of(last_err, e) == Some(e)

\* The call: max_attempts >= 1, and what each attempt will meet.  idx is the local
\* attempt, ret is the local last_err until the call ends, candidates the local html,
\* con_log the drivers made and quit
InitRetry ==
    /\ pc = "for"
    /\ \E max_attempts \in 1..MaxAttempts :
          arg \in [max_attempts : {max_attempts}, outcomes : [1..max_attempts -> AttemptOutcomes]]
    /\ idx = 0
    /\ ret = None
    /\ candidates = None
    /\ con_log = << >>
    /\ fuzz = NoFuzz
    /\ cards = << >>
    /\ set_meta = {}
    /\ lines = << >>
    /\ top_k = 0
    /\ fout = << >>
    /\ review_rows = << >>
    /\ db = "ok"

RetryUnchanged == UNCHANGED <<arg, fuzz, cards, set_meta, lines, top_k, fout, review_rows, db>>

\* for attempt in range(1, max_attempts + 1): driver = make_chrome_driver(...), which
\* is outside the try, so its exception leaves the function
MakeDriver ==
    /\ pc = "for"
    /\ idx < arg.max_attempts
    /\ idx' = idx + 1
    /\ IF arg.outcomes[idx + 1] = "no_driver"
       THEN /\ pc' = "raised"
            /\ ret' = Some(ErrorOf(idx + 1))
            /\ UNCHANGED con_log
       ELSE /\ pc' = "try"
            /\ con_log' = Append(con_log, <<"make", idx + 1>>)
            /\ UNCHANGED ret
    /\ UNCHANGED candidates
    /\ RetryUnchanged

\* The try block: html = fetch_full_set_html_by_scrolling(driver, ...); return html
FetchPage ==
    /\ pc = "try"
    /\ IF arg.outcomes[idx] = "ok"
       THEN /\ candidates' = Some(PageOf(idx))
            /\ pc' = "finally, return"
            /\ UNCHANGED ret
       ELSE /\ ret' = last_err_of(ret, ErrorOf(idx))
            /\ pc' = "except"
            /\ UNCHANGED candidates
    /\ UNCHANGED <<idx, con_log>>
    /\ RetryUnchanged

\* The except block after last_err = e: driver.quit(), the message, the sleep
ExceptQuit ==
    /\ pc = "except"
    /\ con_log' = Append(con_log, <<"quit", idx>>)
    /\ pc' = "finally, next"
    /\ UNCHANGED <<idx, ret, candidates>>
    /\ RetryUnchanged

\* The finally block: driver.quit() (again after an except), then the return of the
\* try block or the next turn of the loop
FinallyQuit ==
    /\ pc \in {"finally, return", "finally, next"}
    /\ con_log' = Append(con_log, <<"quit", idx>>)
    /\ IF pc = "finally, return"
       THEN /\ pc' = "returned"
            /\ ret' = candidates
       ELSE /\ pc' = "for"
            /\ UNCHANGED ret
    /\ UNCHANGED <<idx, candidates>>
    /\ RetryUnchanged

\* The loop is over: raise last_err
RaiseLastErr ==
    /\ pc = "for"
    /\ idx = arg.max_attempts
    /\ pc' = "raised"
    /\ UNCHANGED <<idx, ret, candidates, con_log>>
    /\ RetryUnchanged

NextRetry == MakeDriver \/ FetchPage \/ ExceptQuit \/ FinallyQuit \/ RaiseLastErr

SpecRetry == InitRetry /\ [][NextRetry]_vars

\* ------------------------------------------------------------------ build_db_from_sets

\* Bound on the number of sets of the sets CSV
MaxSets == 3

\* The set_url of set k (k = 0 is a set ingested by an earlier run)
SetUrl(k) == <<"/", "c", "/">> \o StrOfNat(k)

\* The rows scrape_set_cards gives for set k: two cards of the set's page
ScrapedRows(k) == <<IngestRow(<<k, 1>>, SetUrl(k), "1"), IngestRow(<<k, 2>>, SetUrl(k), "2")>>

\* How the turn of a set goes: scraped and stored; the scrape raises; executemany
\* raises after its first row; con.commit() raises after every row
SetOutcomes == {"ok", "scrape_error", "execute_error", "commit_error"}

\* cards is the table as committed, candidates the table as the connection of the
\* run sees it, with the changes of its open transaction
InitBuildDb ==
    /\ pc = "loop"
    /\ \E n \in 0..MaxSets : lines \in [1..n -> SetOutcomes]
    /\ idx = 0
    /\ cards = upsert_cards(<< >>, ScrapedRows(0))
    /\ candidates = cards
    /\ con_log = << >>
    /\ arg = << >>
    /\ ret = << >>
    /\ fuzz = NoFuzz
    /\ set_meta = {}
    /\ top_k = 0
    /\ fout = << >>
    /\ review_rows = << >>
    /\ db = "ok"

BuildDbUnchanged == UNCHANGED <<arg, ret, fuzz, set_meta, lines, top_k, fout, review_rows, db>>

\* One turn of the loop over the sets: try: scrape, upsert_cards (executemany, then
\* commit); except Exception: print.  Nothing rolls back what executemany did.
IngestSet ==
    /\ pc = "loop"
    /\ idx < Len(lines)
    /\ idx' = idx + 1
    /\ LET outcome == lines[idx + 1]
           rows == ScrapedRows(idx + 1)
       IN  /\ candidates' = IF outcome = "scrape_error" THEN candidates
                            ELSE IF outcome = "execute_error"
                            THEN upsert_cards(candidates, SubSeq(rows, 1, 1))
                            ELSE upsert_cards(candidates, rows)
           /\ cards' = IF outcome = "ok" THEN upsert_cards(candidates, rows) ELSE cards
           /\ con_log' = Append(con_log, IF outcome = "ok" THEN "+cards" ELSE "ERROR")
    /\ UNCHANGED pc
    /\ BuildDbUnchanged

\* con.close(): what was not committed is gone
CloseDb ==
    /\ pc = "loop"
    /\ idx = Len(lines)
    /\ pc' = "done"
    /\ candidates' = cards
    /\ UNCHANGED <<idx, cards, con_log>>
    /\ BuildDbUnchanged

NextBuildDb == IngestSet \/ CloseDb

SpecBuildDb == InitBuildDb /\ [][NextBuildDb]_vars

\* ------------------------------------------------------------------ claims

\* The maximal digit runs of a text, as <<first, last>> positions
DigitRuns(s) ==
    {r \in (1..Len(s)) \X (1..Len(s)) :
        /\ r[1] <= r[2]
        /\ \A k \in r[1]..r[2] : IsDigit(s[k])
        /\ (r[1] = 1 \/ ~IsDigit(s[r[1] - 1]))
        /\ (r[2] = Len(s) \/ ~IsDigit(s[r[2] + 1]))}

FirstMaximalRun(s) ==
    LET q == {r \in DigitRuns(s) : r[2] - r[1] + 1 <= 4}
    IN  IF q = {} THEN None
        ELSE LET r == CHOOSE x \in q : \A y \in q : x[1] <= y[1]
             IN  Some(IntOfDigits(SubSeq(s, r[1], r[2])))

\* C1: extract_int returns the value of the first maximal run of 1 to 4 digits of
\* the text: never the first 4 digits of a longer run, and none when no such run exists.
C1_FirstMaximalRun ==
    pc = "ret" => Val(ret) = FirstMaximalRun(arg.num_text)

\* C2: "103/165" gives 103, "053/182" gives 53, "#245" gives 245 and "SV1V 053"
\* gives 53, the collector number and not a digit of the prefix.
C2_CollectorNumberExamples ==
    pc = "ret" =>
        /\ arg.num_text = T_103_165 => Val(ret) = Some(103)
        /\ arg.num_text = T_053_182 => Val(ret) = Some(53)
        /\ arg.num_text = T_hash245 => Val(ret) = Some(245)
        /\ arg.num_text = T_SV1V_053 => Val(ret) = Some(53)

\* C4 as stated: number_score is 100 when both numbers normalize and are equal, and
\* 0 in every other case.
C4_NumberScoreAllOrNothing ==
    pc = "ret" =>
        LET a == extract_int(arg.input_num_text)
            b == extract_int(arg.candidate_num_text)
        IN  Val(ret) = IF ~IsNone(a) /\ ~IsNone(b) /\ a = b THEN 100 ELSE 0

\* C4 amended: when both numbers normalize, number_score is 100 if they are equal,
\* 70 if they differ by 1 or 2, 40 if they differ by 3 to 5 and 0 beyond; when either
\* does not normalize it is fuzz.partial_ratio of the two raw texts.
C4_NumberScoreTiers ==
    pc = "ret" =>
        LET a == extract_int(arg.input_num_text)
            b == extract_int(arg.candidate_num_text)
        IN  /\ (~IsNone(a) /\ ~IsNone(b)) =>
                 /\ Val(a) = Val(b) => Val(ret) = 100
                 /\ Abs(Val(a) - Val(b)) \in 1..2 => Val(ret) = 70
                 /\ Abs(Val(a) - Val(b)) \in 3..5 => Val(ret) = 40
                 /\ Abs(Val(a) - Val(b)) > 5 => Val(ret) = 0
            /\ (IsNone(a) \/ IsNone(b)) =>
                 Val(ret) = fuzz.partial_ratio[<<arg.input_num_text, arg.candidate_num_text>>]

\* C4 witness: two numbers that normalize and differ by 2 were scored, and a pair with
\* a text without digits is scored by the library.
C4_Witness ==
    /\ pc = "ret"
    /\ arg.input_num_text = <<"3">>
    /\ arg.candidate_num_text = <<"0", "5">>
    /\ Val(ret) = 70

SelectedSets(set_size, year) ==
    {m.set_slug : m \in {x \in set_meta :
        /\ x.language = "English"
        /\ (IsNone(set_size) \/ x.base_total = set_size)
        /\ (IsNone(year) \/ x.released_year = year \/ x.released_year = Some(Val(year) - 1))}}

\* The stored number equals or contains the number n, plain or zero-padded to 3 digits
StoredNumberMatches(stored, n) ==
    \/ stored = StrOfNat(n)
    \/ stored = zfill(StrOfNat(n), 3)
    \/ Contains(stored, StrOfNat(n))
    \/ Contains(stored, zfill(StrOfNat(n), 3))

Urls(rows) == {rows[i].card_url : i \in 1..Len(rows)}

LastOut == fout[Len(fout)]

\* C3: when the number of the record does not normalize, or no set satisfies the
\* record's constraints, the fetcher returns no candidates, whatever the name.
C3_NoNameOnlyFallback ==
    (/\ fout # << >>
     /\ \/ IsNone(extract_int(LastOut.input.collector_number))
        \/ SelectedSets(LastOut.input.set_size, LastOut.input.copyright_year) = {})
        => candidates = << >>

C8_MissingNumberReason ==
    \A i \in 1..Len(fout) :
        LET o == fout[i]
        IN  o.input.collector_number = << >> =>
               /\ o.needs_review
               /\ "review_reasons" \in DOMAIN o
               /\ "missing input number" \in o.review_reasons

\* C9: when the number normalizes and some set satisfies the constraints, the
\* fetcher returns exactly the entries of those sets whose stored number matches.
C9_ExactlySetAndNumberMatches ==
    fout # << >> =>
        LET n == extract_int(LastOut.input.collector_number)
            sets == SelectedSets(LastOut.input.set_size, LastOut.input.copyright_year)
        IN  (~IsNone(n) /\ sets # {}) =>
               Urls(candidates) =
                   {cards[i].card_url : i \in {j \in 1..Len(cards) :
                       /\ cards[j].set_slug \in sets
                       /\ StoredNumberMatches(cards[j].card_number, Val(n))}}

\* C10: the cards a record is matched against belong to the sets that satisfy all
\* the record's constraints (English, base_total, released_year), and to no other.
C10_OnlySelectedSets ==
    \A i \in 1..Len(fout) :
        LET o == fout[i]
            sets == SelectedSets(o.input.set_size, o.input.copyright_year)
        IN  \A k \in 1..Len(o.matches) :
               \E j \in 1..Len(cards) :
                  /\ cards[j].card_url = o.matches[k].card_url
                  /\ cards[j].set_slug \in sets

\* The place of the j-th scored candidate in the ranking: after every candidate of
\* a higher score and after the earlier candidates of the same score
RankOf(scored, j) ==
    1 + Cardinality({l \in 1..Len(scored) :
                        \/ scored[l].score > scored[j].score
                        \/ (scored[l].score = scored[j].score /\ l < j)})

\* C11: for K > 0 the ranker returns the first min(K, n) of the n scored candidates
\* in the order of non-increasing combined score, candidates of equal score in their
\* fetch order, and never more than K.
C11_StableTopK ==
    (pc = "ret" /\ arg.top_k > 0) =>
        LET scored == [i \in 1..Len(candidates) |->
                          ScoreRow(arg.card_name, arg.card_number_text, candidates[i])]
            matches == Val(ret)
        IN  /\ Len(matches) = Min({arg.top_k, Len(scored)})
            /\ Len(matches) <= arg.top_k
            /\ \A i \in 1..(Len(matches) - 1) : matches[i].score >= matches[i + 1].score
            /\ \A j \in 1..Len(scored) :
                   RankOf(scored, j) <= arg.top_k => matches[RankOf(scored, j)] = scored[j]

\* C11 witness: three candidates were fetched, the first and the last fetched tie at
\* the top, and K = 2 returns the two in their fetch order.
C11_Witness ==
    /\ pc = "ret"
    /\ arg.top_k = 2
    /\ Len(candidates) = 3
    /\ candidates[1].card_url = "u1"
    /\ candidates[3].card_url = "u4"
    /\ Len(Val(ret)) = 2
    /\ Val(ret)[1].card_url = "u1"
    /\ Val(ret)[2].card_url = "u4"
    /\ Val(ret)[1].score = Val(ret)[2].score

\* C12: a call with top_k <= 0 is rejected before any access to the catalog: it
\* raises, with no connection opened and no query run, and returns no list.
C12_NonPositiveTopKRejected ==
    (pc # "call" /\ arg.top_k <= 0) => (pc = "raised" /\ con_log = << >>)

\* The records of the first n lines of the input: its lines that are not blank
RecordsOf(n) == SelectRows(lines, {i \in 1..n : lines[i].kind # "blank"})

\* The line can be read as a record whose name and number are texts
WellFormed(line) ==
    /\ line.kind = "json"
    /\ ~StripRaises(line.rec.card_name)
    /\ ~StripRaises(line.rec.collector_number)

\* C13: when run ends, the outcomes written are one per input record, in input
\* order: the i-th outcome is that of the i-th record, and a record that fails is
\* there as an unresolved outcome.
C13_OneOutcomePerRecord ==
    pc \in {"done", "raised"} =>
        LET recs == RecordsOf(Len(lines))
        IN  /\ Len(fout) = Len(recs)
            /\ \A i \in 1..Len(recs) :
                   IF WellFormed(recs[i])
                   THEN /\ fout[i].image = recs[i].rec.image
                        /\ fout[i].input.card_name = strip(OrEmpty(recs[i].rec.card_name))
                        /\ fout[i].input.collector_number
                              = strip(OrEmpty(recs[i].rec.collector_number))
                   ELSE IsNone(fout[i].best) /\ fout[i].needs_review

\* C14: no single bad record ends the run: run is left by an exception only when
\* the store cannot be read, never because of a line that is no JSON, a record with
\* missing or garbled fields or a failed identification, so that every later record
\* is still processed.
C14_NoAbortOnBadRecord ==
    pc = "raised" => Val(ret) \in {"sqlite3.OperationalError", "sqlite3.DatabaseError"}

\* The text is an integer as int() reads it: an optional sign and decimal digits
IntegerText(t) ==
    LET digits == IF t # << >> /\ t[1] \in {"+", "-"} THEN Tail(t) ELSE t
    IN  digits # << >> /\ \A i \in 1..Len(digits) : IsDigit(digits[i])

\* C15: to_int and extract_int never raise.  to_int gives absent for null, for a
\* number with a fraction and for a text that is empty, blank or no integer, and
\* the integer otherwise; extract_int gives no number for a text without digits.
C15_TotalConversions ==
    /\ pc # "raised"
    /\ (pc = "ret" /\ "x" \in DOMAIN arg) =>
          /\ arg.x.t \in {"null", "float"} => Val(ret) = None
          /\ (arg.x.t = "str" /\ ~IntegerText(strip(arg.x.v))) => Val(ret) = None
          /\ (arg.x.t = "str" /\ IntegerText(strip(arg.x.v))) => ~IsNone(Val(ret))
          /\ arg.x.t = "int" => Val(ret) = Some(arg.x.v)
    /\ (pc = "ret" /\ "num_text" \in DOMAIN arg) =>
          ((\A i \in 1..Len(arg.num_text) : ~IsDigit(arg.num_text[i])) => Val(ret) = None)

\* C15 witness: to_int returned absent for the non-integral text "1.6".
C15_Witness ==
    /\ pc = "ret"
    /\ "x" \in DOMAIN arg
    /\ arg.x.t = "str"
    /\ arg.x.v = <<"1", ".", "6">>
    /\ Val(ret) = None

\* C16: when the store cannot be read (no file, no table cards, no database), the
\* lookup ends by the store's exception, which reaches the caller; it returns no
\* list, not even the empty one.
C16_UnreadableStoreRaises ==
    (pc # "call" /\ db # "ok" /\ arg.top_k > 0) =>
        (pc = "raised" /\ Val(ret) \in {"sqlite3.OperationalError", "sqlite3.DatabaseError"})

\* C17: what the fetcher returns holds each card_url at most once, also for a card
\* that several number patterns or both queries select.
C17_OneRowPerUrl ==
    pc = "ret" =>
        \A i, j \in 1..Len(candidates) :
            candidates[i].card_url = candidates[j].card_url => i = j

\* C17 witness: the card u1 was selected by the number query and by the name query,
\* the card u2 by two number patterns, and each is returned once.
C17_Witness ==
    /\ pc = "ret"
    /\ arg.card_name = N_Mew
    /\ arg.card_number_text = T_53_165
    /\ cards = CardUniverse
    /\ Len(candidates) = 4
    /\ candidates[1].card_url = "u1"
    /\ candidates[2].card_url = "u2"

\* What a row of cards holds in the columns an ingestion supplies
Ingested(row) == [c \in IngestColumns |-> row[c]]

\* C18: each step of ingestion leaves at most one row per card_url in cards; after
\* upsert_cards the row of each ingested card_url holds, in the owning set, product
\* id, name, number, image and the three prices, what the last row of that card_url
\* in the call supplied, the rows of the other card_urls are as they were, and no
\* row is lost; the set_slug backfill changes none of these columns.
C18_UpsertOverwrites ==
    [][/\ \A i, j \in 1..Len(cards') : cards'[i].card_url = cards'[j].card_url => i = j
       /\ pc' = "upserted" =>
             /\ Urls(cards') = Urls(cards) \cup Urls(arg'.rows)
             /\ \A k \in 1..Len(arg'.rows) :
                    LET same == {l \in 1..Len(arg'.rows) :
                                    arg'.rows[l].card_url = arg'.rows[k].card_url}
                    IN  \E i \in 1..Len(cards') : Ingested(cards'[i]) = arg'.rows[Max(same)]
             /\ \A i \in 1..Len(cards) :
                    cards[i].card_url \notin Urls(arg'.rows) => cards'[i] = cards[i]
       /\ pc' = "backfilled" =>
             /\ Len(cards') = Len(cards)
             /\ \A i \in 1..Len(cards) : Ingested(cards'[i]) = Ingested(cards[i])
      ]_vars

\* C18 witness: the card u1, ingested and given its set_slug before, was ingested
\* again from another set's page with other values, next to the row of u2; cards
\* holds one row for it, with the values of the last ingestion.
C18_Witness ==
    /\ pc = "upserted"
    /\ Len(cards) = 2
    /\ cards[1].card_url = "u1"
    /\ cards[2].card_url = "u2"
    /\ cards[1].set_slug = Some(<<"a">>)
    /\ arg.rows = <<IngestRow("u1", <<"/", "c", "/", "b", "/">>, "2")>>
    /\ Ingested(cards[1]) = arg.rows[1]

Sequential(p) ==
    LET e == sqlite_error(db, arg[p].card_name, arg[p].card_number_text)
    IN  IF IsNone(e)
        THEN Return(lookup_best_match(cards, arg[p].card_name, arg[p].card_number_text,
                                      arg[p].top_k))
        ELSE Raise(Val(e))

\* C21: lookups run in any interleaving against the same catalog each end as they
\* would alone: the same matches in the same order, or the same exception.
C21_InterleavingIsSequential ==
    \A p \in Procs :
        /\ pc[p] = "ret" => (~Sequential(p).raised /\ Val(ret[p]) = Sequential(p).value)
        /\ pc[p] = "raised" => (Sequential(p).raised /\ Val(ret[p]) = Sequential(p).exc)

\* C21 witness: the second lookup ran both its queries between the two queries of
\* the first, and both returned their matches.
C21_Witness ==
    /\ pc[1] = "ret"
    /\ pc[2] = "ret"
    /\ arg[1].card_number_text = T_53_165
    /\ arg[1].card_name = N_Mew
    /\ arg[2].card_name = N_Mew
    /\ arg[2].card_number_text = << >>
    /\ SubSeq(con_log, 1, 5) = <<"connect", "connect", "execute", "execute", "execute">>
    /\ Len(Val(ret[1])) = 2
    /\ Val(ret[1]) # Val(ret[2])

\* C22: the combined score of every scored candidate is an integer in 0..100,
\* whether or not the input number text and the stored number text normalize.
C22_ScoreInRange ==
    pc = "ret" => Val(ret).score \in 0..100

\* C22 witness: a candidate whose stored number does not normalize, scored with a
\* name score and a fuzzy number score that are neither 0 nor 100.
C22_Witness ==
    /\ pc = "ret"
    /\ IsNone(extract_int(arg.row.card_number))
    /\ ~IsNone(extract_int(arg.card_number_text))
    /\ Val(ret).name_score = 87
    /\ Val(ret).number_score = 50
    /\ Val(ret).score = 80

\* C23: after any sequence of population steps set_meta holds at most one row per
\* set identifier, every base_total that is not NULL is a positive integer and
\* every released_year that is not NULL is a four-digit year.
C23_SetMetaWellFormed ==
    /\ \A r1 \in set_meta : \A r2 \in set_meta : r1.set_slug = r2.set_slug => r1 = r2
    /\ \A r \in set_meta : ~IsNone(r.base_total) => Val(r.base_total) \in Nat \ {0}
    /\ \A r \in set_meta : ~IsNone(r.released_year) => Val(r.released_year) \in 1000..9999

\* The listing came from the sheet's row r: its pictures are those of the manifest
\* record the row is joined to, and its card is the row's match
ListingOf(listing, r) ==
    /\ ~IsNone(parse_int(Some(r.idx)))
    /\ ~IsNone(by_idx(arg.manifest_rows, Val(parse_int(Some(r.idx))) + 1))
    /\ listing.front_url = strip(Val(by_idx(arg.manifest_rows,
                                            Val(parse_int(Some(r.idx))) + 1)).front_url)
    /\ listing.card_name = strip(r.best_name)
    /\ listing.card_number = strip(r.best_number)
    /\ listing.set = strip(r.best_set_slug)

\* C24: every listing of Batch.csv comes from a row of the sheet whose
\* needs_review cell means false; a row whose cell means true, or is not
\* recognised, gives no listing.
C24_OnlyUnflaggedRowsListed ==
    pc = "built" =>
        \A i \in 1..Len(ret) :
            \E k \in 1..Len(review_rows) :
                /\ ListingOf(ret[i], review_rows[k])
                /\ ~parse_boolish(Some(review_rows[k].needs_review))

\* The manifest record the builder joins to a row of the sheet
Joined(r) == by_idx(arg.manifest_rows, Val(parse_int(Some(r.idx))) + 1)

RulePrice(p) ==
    LET floored == IF p < 249 THEN 249 ELSE p
        marked == IF floored < 500 THEN (floored + 150) * 100 ELSE floored * 125
        dollars == marked \div 10000
        cents == (marked % 10000) \div 100
    IN  100 * dollars + (IF cents \in 0..49 THEN 49 ELSE 95)

\* C26: the listing price of an ungraded price is the floor at 2.49, then +1.50
\* below 5.00 and x1.25 from 5.00 on, then the cents set to 49 or 95; it ends in
\* .49 or .95 and is never below 3.95.
C26_PriceRule ==
    pc = "ret" =>
        /\ ret.final_price = RulePrice(arg.best_ungraded_price)
        /\ ret.final_price % 100 \in {49, 95}
        /\ ret.final_price >= 395

\* C26 witness: 5.02 marked up to 6.275, a tie that round() takes to 6.27, priced
\* at 6.49.
C26_Witness ==
    /\ pc = "ret"
    /\ arg.best_ungraded_price = 502
    /\ ret.raw_price = 627
    /\ ret.final_price = 649

\* The run just made uploaded nothing
NoUpload == \A i \in 1..Len(con_log') : con_log'[i] # "upload"

\* C27: a run never changes the content of an object the bucket already holds, and
\* a run on the folder of the last complete run, unchanged, uploads nothing and
\* writes the same manifest.
C27_UploadIdempotent ==
    [][/\ \A n \in DOMAIN db : n \in DOMAIN db' /\ db'[n] = db[n]
       /\ (pc = "done" /\ pc' = "done" /\ lines' = lines)
              => (NoUpload /\ fout' = fout /\ db' = db)]_vars

\* C27 witness: a complete run of two pairs that found every object in the bucket,
\* one of them under the name of another content, which it left as it was.
C27_Witness ==
    /\ pc = "done"
    /\ Len(fout) = 2
    /\ con_log = <<"exists", "exists", "exists", "exists">>
    /\ lines[1].content = "c"
    /\ db[fout[1].front_object] = "a"

\* A row of the sheet for an unresolved outcome: no best name, number, set or price
Unresolved(r) ==
    /\ strip(r.best_name) = << >>
    /\ strip(r.best_number) = << >>
    /\ strip(r.best_set_slug) = << >>
    /\ strip(r.best_ungraded_price) = << >>

Made == {k \in 1..MaxAttempts + 1 : \E i \in 1..Len(con_log) : con_log[i] = <<"make", k>>}

At(event) == {i \in 1..Len(con_log) : con_log[i] = event}

\* C29: at most max_attempts attempts are made, each with a driver of its own that
\* is quit before the next attempt and before the call ends; the call returns the
\* page of the first attempt that succeeds and attempts nothing after it; when
\* every attempt fails it raises the error of the last one.
C29_RetryContract ==
    /\ idx <= arg.max_attempts
    /\ \A k \in Made : k <= idx /\ Cardinality(At(<<"make", k>>)) = 1
    /\ \A k \in Made : k < idx => (/\ At(<<"quit", k>>) # {}
                                    /\ \A j \in Made : j > k =>
                                           Max(At(<<"quit", k>>)) < Min(At(<<"make", j>>)))
    /\ pc \in {"returned", "raised"} => \A k \in Made : At(<<"quit", k>>) # {}
    /\ pc = "returned" =>
           /\ arg.outcomes[idx] = "ok"
           /\ \A k \in 1..(idx - 1) : arg.outcomes[k] = "fetch_error"
           /\ ret = Some(PageOf(idx))
    /\ pc = "raised" =>
           /\ \A k \in 1..idx : arg.outcomes[k] # "ok"
           /\ ret = Some(ErrorOf(idx))
           /\ (idx < arg.max_attempts => arg.outcomes[idx] = "no_driver")

\* C29 witness: three attempts failed, each driver was quit, and the error of the
\* third left the call.
C29_Witness ==
    /\ pc = "raised"
    /\ arg.max_attempts = 3
    /\ idx = 3
    /\ Made = {1, 2, 3}
    /\ \A k \in 1..3 : arg.outcomes[k] = "fetch_error"
    /\ ret = Some(ErrorOf(3))

\* C30: a set whose scrape or store fails stops nothing and leaves the rows of the
\* other sets alone: every set is attempted, and after the run cards holds the rows
\* it held before and the rows of the sets that were ingested, nothing of a set
\* that failed.
C30_FailedSetLeavesNoRows ==
    pc = "done" =>
        /\ idx = Len(lines)
        /\ Len(con_log) = Len(lines)
        /\ \A j \in 1..2 : cards[j] = upsert_cards(<< >>, ScrapedRows(0))[j]
        /\ \A k \in 1..Len(lines) :
               lines[k] = "ok" => \A j \in 1..2 : \E i \in 1..Len(cards) :
                                      cards[i].card_url = ScrapedRows(k)[j].card_url
        /\ \A i \in 1..Len(cards) :
               \/ cards[i].set_url = SetUrl(0)
               \/ \E k \in 1..Len(lines) : lines[k] = "ok" /\ cards[i].set_url = SetUrl(k)

====
